---- MODULE Spec2Model ----
(***************************************************************************)
(* Job-growth report service (backend/main.py): the /api/job-growth        *)
(* handler with its cache read path, location resolution, concurrent       *)
(* fan-out over the data sources, report composition and cache write.      *)
(*                                                                         *)
(* Python values are modelled as tagged records (field t names the type),  *)
(* a dict as a function from key strings to values, a list as a sequence.  *)
(* A str is a sequence of tokens where the handler concatenates it (the    *)
(* address, the geo_type, the cache key) and a TLA+ string elsewhere.      *)
(***************************************************************************)
EXTENDS Integers, Sequences, FiniteSets, TLC

(***************************************************************************)
(* Python values                                                           *)
(***************************************************************************)
None == [t |-> "None"]
Str(s) == [t |-> "str", s |-> s, arg |-> <<>>]
\* an f-string: the template s with the formatted argument x
FStr(s, x) == [t |-> "str", s |-> s, arg |-> <<x>>]
Num(n) == [t |-> "num", n |-> n, d |-> 1]
Inf == [t |-> "inf"]
Bool(b) == [t |-> "bool", b |-> b]
Dict(f) == [t |-> "dict", kv |-> f]
List(s) == [t |-> "list", items |-> s]
Exc(e) == [t |-> "exc", e |-> e]
EmptyDict == Dict(<<>>)

RECURSIVE Gcd(_, _)
Gcd(a, b) == IF b = 0 THEN a ELSE Gcd(b, a % b)
Abs(n) == IF n < 0 THEN -n ELSE n

\* the number n/d (d > 0) in lowest terms
Frac(n, d) ==
    LET g == Gcd(Abs(n), d)
    IN  [t |-> "num", n |-> n \div g, d |-> d \div g]

\* x > k for a Python number x and an integer literal k
Gt(x, k) == IF x.t = "inf" THEN TRUE ELSE x.n > k * x.d
\* x > y, x - y for two Python numbers
GtNum(x, y) ==
    IF y.t = "inf" THEN FALSE
    ELSE IF x.t = "inf" THEN TRUE
    ELSE x.n * y.d > y.n * x.d
SubNum(x, y) ==
    IF x.t = "inf" THEN Inf ELSE Frac(x.n * y.d - y.n * x.d, x.d * y.d)

\* isinstance(x, dict), isinstance(x, Exception), x is None
IsDict(x) == x.t = "dict"
IsException(x) == x.t = "exc"
IsNone(x) == x.t = "None"

\* bool(x)
Truthy(x) ==
    CASE x.t = "None" -> FALSE
      [] x.t = "str" -> x.s # ""
      [] x.t = "num" -> x.n # 0
      [] x.t = "bool" -> x.b
      [] x.t = "dict" -> DOMAIN x.kv # {}
      [] x.t = "list" -> Len(x.items) > 0
      [] OTHER -> TRUE

\* k in d, d[k], d.get(k, default), {**a, **b}
Has(d, k) == k \in DOMAIN d.kv
Item(d, k) == d.kv[k]
Get(d, k, default) == IF k \in DOMAIN d.kv THEN d.kv[k] ELSE default
Merge(a, b) ==
    Dict([k \in DOMAIN a.kv \cup DOMAIN b.kv |->
            IF k \in DOMAIN b.kv THEN b.kv[k] ELSE a.kv[k]])

(***************************************************************************)
(* json.dumps / json.loads.  The text is modelled by its syntax tree: an   *)
(* object, an array, a number literal, a string literal, or one of the     *)
(* words null, true, false, Infinity (allow_nan is left at its default).   *)
(* Garbage is a text json.loads rejects with JSONDecodeError.              *)
(***************************************************************************)
RECURSIVE json_dumps(_)
json_dumps(x) ==
    CASE x.t = "None" -> [j |-> "null"]
      [] x.t = "bool" -> [j |-> IF x.b THEN "true" ELSE "false"]
      [] x.t = "num" -> [j |-> "number", n |-> x.n, d |-> x.d]
      [] x.t = "inf" -> [j |-> "Infinity"]
      [] x.t = "str" -> [j |-> "string", s |-> x.s, arg |-> x.arg]
      [] x.t = "list" ->
            [j |-> "array", items |-> [i \in DOMAIN x.items |-> json_dumps(x.items[i])]]
      [] x.t = "dict" ->
            [j |-> "object", members |-> [k \in DOMAIN x.kv |-> json_dumps(x.kv[k])]]

RECURSIVE json_loads(_)
\* a decoder that reads number literals as integers (json.loads(s, parse_float=int)
\* with truncation), which the code does not use
json_loads_parse_float_int(s) ==
    CASE s.j = "null" -> None
      [] s.j = "true" -> Bool(TRUE)
      [] s.j = "false" -> Bool(FALSE)
      [] s.j = "number" -> [t |-> "num", n |-> s.n \div s.d, d |-> 1]
      [] s.j = "Infinity" -> Inf
      [] s.j = "string" -> [t |-> "str", s |-> s.s, arg |-> s.arg]
      [] s.j = "array" ->
            List([i \in DOMAIN s.items |-> json_loads(s.items[i])])
      [] s.j = "object" ->
            Dict([k \in DOMAIN s.members |-> json_loads(s.members[k])])
\* json.loads(cached)
json_loads(s) ==
    CASE s.j = "null" -> None
      [] s.j = "true" -> Bool(TRUE)
      [] s.j = "false" -> Bool(FALSE)
      [] s.j = "number" -> [t |-> "num", n |-> s.n, d |-> s.d]
      [] s.j = "Infinity" -> Inf
      [] s.j = "string" -> [t |-> "str", s |-> s.s, arg |-> s.arg]
      [] s.j = "array" ->
            List([i \in DOMAIN s.items |-> json_loads(s.items[i])])
      [] s.j = "object" ->
            Dict([k \in DOMAIN s.members |-> json_loads(s.members[k])])

Garbage == [j |-> "garbage"]
JSONDecodeError(s) == s.j = "garbage"

(***************************************************************************)
(* Arithmetic on Python numbers (exact rationals stand for the floats)     *)
(***************************************************************************)
MulNum(x, y) == Frac(x.n * y.n, x.d * y.d)
\* x / y for y > 0
DivNum(x, y) == Frac(x.n * y.d, x.d * y.n)
AbsNum(x) == IF x.t = "inf" THEN Inf ELSE [x EXCEPT !.n = Abs(x.n)]

\* round(n/d) for d > 0: to the nearest integer, a tie to the even one
RoundInt(n, d) ==
    LET q == n \div d
        r == n - q * d
    IN  IF 2 * r < d THEN q
        ELSE IF 2 * r > d THEN q + 1
        ELSE IF q % 2 = 0 THEN q ELSE q + 1

\* round(x), round(x, 1), round(x, 2)
Round0(x) == Num(RoundInt(x.n, x.d))
Round1(x) == IF x.t = "inf" THEN Inf ELSE Frac(RoundInt(x.n * 10, x.d), 10)
Round2(x) == IF x.t = "inf" THEN Inf ELSE Frac(RoundInt(x.n * 100, x.d), 100)

\* round(((latest - past) / past) * 100, 2) for past > 0
PctChange(latest, past) ==
    Round2(MulNum(DivNum(SubNum(latest, past), past), Num(100)))

SetMax(S) == CHOOSE m \in S : \A x \in S : x <= m

(***************************************************************************)
(* compare_local_to_national                                               *)
(***************************************************************************)
Periods == <<"1y", "2y", "5y">>

\* a comparison that counts a missing rate as 0
ZeroFilled(growth) ==
    Dict([p \in {"1y", "2y", "5y"} |->
            IF IsNone(Get(growth, p, None)) THEN Num(0) ELSE Item(growth, p)])
compare_zero_filled(local_growth, national_data) ==
    Dict([p \in {"1y", "2y", "5y"} |->
            Dict([local_rate |-> Item(ZeroFilled(local_growth), p),
                  national_rate |->
                      Item(ZeroFilled(Get(national_data, "national_growth", EmptyDict)), p),
                  difference |->
                      Round2(SubNum(Item(ZeroFilled(local_growth), p),
                                    Item(ZeroFilled(Get(national_data, "national_growth",
                                                        EmptyDict)), p))),
                  outperforming |->
                      Bool(GtNum(Item(ZeroFilled(local_growth), p),
                                 Item(ZeroFilled(Get(national_data, "national_growth",
                                                     EmptyDict)), p)))])])
compare_local_to_national(local_growth, national_data) ==
    LET national_growth == Get(national_data, "national_growth", EmptyDict)
        local_rate(p) == Get(local_growth, p, None)
        national_rate(p) == Get(national_growth, p, None)
        present == {Periods[i] : i \in {i \in 1..Len(Periods) :
                       /\ ~IsNone(local_rate(Periods[i]))
                       /\ ~IsNone(national_rate(Periods[i]))}}
        entry(p) ==
            LET difference == Round2(SubNum(local_rate(p), national_rate(p)))
                outperforming == GtNum(local_rate(p), national_rate(p))
            IN  Dict([local_rate |-> local_rate(p),
                      national_rate |-> national_rate(p),
                      difference |-> difference,
                      outperforming |-> Bool(outperforming),
                      performance_description |->
                          FStr(IF outperforming
                                   THEN "Outperforming national average by p.p."
                                   ELSE "Underperforming national average by p.p.",
                               Round1(AbsNum(difference)))])
    IN  Dict([p \in present |-> entry(p)])

(***************************************************************************)
(* project_census_data                                                     *)
(***************************************************************************)
\* {t['year']: t['value'] for t in trends}: a later item of a year wins
YearValues(trends) ==
    LET years == {Item(trends[i], "year").n : i \in DOMAIN trends}
        last(y) == SetMax({i \in DOMAIN trends : Item(trends[i], "year").n = y})
    IN  [y \in years |-> Item(trends[last(y)], "value")]

\* the growth factor 1 + growth[year] of each year that has one: years are
\* paired with the previous available year, and a pair counts when the
\* previous value is positive
GrowthFactors(by_year) ==
    LET years == DOMAIN by_year
        prev(y) == SetMax({p \in years : p < y})
        known == {y \in years : /\ \E p \in years : p < y
                                /\ Gt(by_year[prev(y)], 0)}
    IN  [y \in known |-> DivNum(by_year[y], by_year[prev(y)])]

\* the value carried from base through the years first..year
RECURSIVE Compound(_, _, _, _)
\* a projector that applies each year's ratio to the base, without compounding
CompoundNot(base, factors, first, year) ==
    IF year < first THEN base
    ELSE IF year \in DOMAIN factors THEN MulNum(base, factors[year]) ELSE base
Compound(base, factors, first, year) ==
    IF year < first THEN base
    ELSE LET before == Compound(base, factors, first, year - 1)
         IN  IF year \in DOMAIN factors THEN MulNum(before, factors[year]) ELSE before

\* the projector without its sort: the appended points stay at the end
AppendedOrder(items) == items
\* list.sort(key=year, reverse=True) of items whose years are distinct
RECURSIVE SortByYearDesc(_)
SortByYearDesc(items) ==
    IF Len(items) = 0 THEN <<>>
    ELSE LET top == SetMax({Item(items[i], "year").n : i \in DOMAIN items})
             at == CHOOSE i \in DOMAIN items :
                      /\ Item(items[i], "year").n = top
                      /\ \A k \in DOMAIN items :
                            Item(items[k], "year").n = top => i <= k
             rest == [k \in 1..(Len(items) - 1) |->
                         IF k < at THEN items[k] ELSE items[k + 1]]
         IN  <<items[at]>> \o SortByYearDesc(rest)

ProjectionNote ==
    Str("Recent years' data for this geography are projected based on county-level trends from BLS.")

\* the point synthesized for year y, from the last known point of the annual series
ProjectedPoint(last_point, emp_growth, labor_growth, y) ==
    LET first == Item(last_point, "year").n + 1
        e == Compound(Item(last_point, "value"), emp_growth, first, y)
        l == Compound(Item(last_point, "labor_force"), labor_growth, first, y)
    IN  Dict([year |-> Num(y),
              value |-> Round0(e),
              unemp_rate |->
                  IF Gt(l, 0) THEN Round2(MulNum(DivNum(SubNum(l, e), l), Num(100)))
                  ELSE Num(0),
              labor_force |-> Round0(l),
              projected |-> Bool(TRUE)])

\* the points of the years after the annual series' last year, up to latest_county_year
ProjectedTrends(last_point, emp_growth, labor_growth, latest_county_year) ==
    [i \in 1..(latest_county_year - Item(last_point, "year").n) |->
        ProjectedPoint(last_point, emp_growth, labor_growth,
                       Item(last_point, "year").n + i)]

GrowthLabel(y) == CASE y = 1 -> "1y" [] y = 2 -> "2y" [] y = 5 -> "5y"

\* the growth windows of the extended trend list: a window is there when the
\* year it looks back to has a positive value
ProjectedGrowth(latest_data, trends_by_year) ==
    LET prev_year(y) == Item(latest_data, "year").n - y
        steps == {y \in {1, 2, 5} :
                    /\ prev_year(y) \in DOMAIN trends_by_year
                    /\ Truthy(trends_by_year[prev_year(y)])
                    /\ Gt(trends_by_year[prev_year(y)], 0)}
    IN  Dict([k \in {GrowthLabel(y) : y \in steps} |->
                PctChange(Item(latest_data, "value"),
                          trends_by_year[prev_year(CHOOSE y \in steps : GrowthLabel(y) = k)])])

\* the headline figures and the growth windows, from the new latest point
Reheadline(census_data, all_trends) ==
    Merge(census_data,
          Dict([total_jobs |-> Item(all_trends[1], "value"),
                unemployment_rate |-> Item(all_trends[1], "unemp_rate"),
                labor_force |-> Item(all_trends[1], "labor_force"),
                growth |-> ProjectedGrowth(all_trends[1], YearValues(all_trends)),
                trends |-> List(all_trends)]))

\* a projector that takes the county series to reach one year further than it does
LatestCountyYearNext(county_emp_trends) ==
    IF DOMAIN county_emp_trends = {} THEN 0 ELSE SetMax(DOMAIN county_emp_trends) + 1
LatestCountyYear(county_emp_trends) ==
    IF DOMAIN county_emp_trends = {} THEN 0 ELSE SetMax(DOMAIN county_emp_trends)

Extrapolate(census_data, county_emp_trends, county_labor_trends) ==
    IF LatestCountyYear(county_emp_trends) <= Item(Item(census_data, "trends").items[1], "year").n
    THEN <<census_data, <<>>>>
    ELSE <<Reheadline(census_data,
                      SortByYearDesc(
                          Item(census_data, "trends").items
                          \o ProjectedTrends(Item(census_data, "trends").items[1],
                                             GrowthFactors(county_emp_trends),
                                             GrowthFactors(county_labor_trends),
                                             LatestCountyYear(county_emp_trends)))),
           <<ProjectionNote>>>>

project_census_data(census_data, county_lau_data) ==
    IF \/ ~Truthy(census_data)
       \/ Truthy(Get(census_data, "error", None))
       \/ ~Truthy(Get(census_data, "trends", None))
    THEN <<census_data, <<>>>>
    ELSE IF ~Truthy(county_lau_data) \/ Truthy(Get(county_lau_data, "error", None))
    THEN <<census_data, <<>>>>
    ELSE Extrapolate(census_data,
                     YearValues(Get(county_lau_data, "employment_trends", List(<<>>)).items),
                     YearValues(Get(county_lau_data, "labor_force_trends", List(<<>>)).items))

(***************************************************************************)
(* What the collaborators answer.  A fetch coroutine returns a dict (its   *)
(* result, or {"error": ...}) or raises; the values below are results the  *)
(* calculators produce for a long series, for a series too short for the   *)
(* growth windows, and for a provider failure.                             *)
(***************************************************************************)
TrendPoint(y, v) == Dict([year |-> Num(y), value |-> v])
CensusPoint(y, employed, unemp_rate, labor) ==
    Dict([year |-> Num(y), value |-> Num(employed),
          unemp_rate |-> unemp_rate, labor_force |-> Num(labor)])
ErrorDict(msg) == Dict([error |-> Str(msg)])

\* aiohttp.ClientError, KeyError, ... raised inside a coroutine
ClientError == Exc("ClientError")
\* redis_client.setex answers True, or raises when the server is away
Stored == Bool(TRUE)
ConnectionError == Exc("ConnectionError")

\* fetch_bls_lau_data
LauFull ==
    Dict([growth |-> Dict([6mo |-> Frac(1, 2), 1y |-> Num(3), 2y |-> Num(5), 5y |-> Num(9)]),
          total_jobs |-> Num(1050),
          unemployment_rate |-> Frac(7, 2),
          labor_force |-> Num(1111),
          trends |-> List(<<TrendPoint(2024, Num(1050)), TrendPoint(2023, Num(1000))>>),
          employment_trends |->
              List(<<TrendPoint(2024, Num(1050)), TrendPoint(2023, Num(1000))>>),
          unemployment_rate_trends |->
              List(<<TrendPoint(2024, Frac(7, 2)), TrendPoint(2023, Num(4))>>),
          labor_force_trends |->
              List(<<TrendPoint(2024, Num(1111)), TrendPoint(2023, Num(1100))>>),
          monthly_employment_trends |->
              List(<<Dict([year |-> Str("2024"), month |-> Str("June"),
                           value |-> Num(1050), label |-> Str("Jun-24")])>>)])
LauShort ==
    Dict([growth |-> Dict([6mo |-> None, 1y |-> None, 2y |-> None, 5y |-> None]),
          total_jobs |-> Num(1000),
          unemployment_rate |-> Num(4),
          labor_force |-> Num(1100),
          trends |-> List(<<TrendPoint(2023, Num(1000))>>),
          employment_trends |-> List(<<TrendPoint(2023, Num(1000))>>),
          unemployment_rate_trends |-> List(<<TrendPoint(2023, Num(4))>>),
          labor_force_trends |-> List(<<TrendPoint(2023, Num(1100))>>),
          monthly_employment_trends |->
              List(<<Dict([year |-> Str("2023"), month |-> Str("January"),
                           value |-> Num(1000), label |-> Str("Jan-23")])>>)])
LauError == ErrorDict("No LAU data found for this location.")

\* fetch_bls_qcew_sectors
QcewFull ==
    Dict([top_sectors_growing |->
              List(<<Dict([name |-> Str("Construction"), growth |-> Frac(21, 10)])>>),
          wage_data |->
              Dict([current_avg_weekly_wage |-> Num(1500),
                    annual_equivalent |-> Num(78000),
                    wage_growth |-> Dict([1y |-> Num(4), 3y |-> Num(10), 5y |-> None])])])
QcewShortWage ==
    Dict([top_sectors_growing |-> List(<<>>),
          wage_data |->
              Dict([current_avg_weekly_wage |-> Num(1500),
                    annual_equivalent |-> Num(78000),
                    wage_growth |-> Dict([1y |-> None, 3y |-> None, 5y |-> None])])])
QcewNoWage ==
    Dict([top_sectors_growing |-> List(<<>>),
          wage_data |-> ErrorDict("No wage data available")])
QcewError == ErrorDict("QCEW API error 500")

\* fetch_national_employment_data
NationalFull ==
    Dict([national_growth |-> Dict([1y |-> Frac(3, 2), 2y |-> Num(3), 5y |-> Num(6)])])
NationalShort ==
    Dict([national_growth |-> Dict([1y |-> None, 2y |-> None, 5y |-> None])])
NationalError == ErrorDict("No national employment data")

\* calculate_downturn_resilience
ResilienceFull ==
    Dict([covid_impact |-> Dict([job_loss_percent |-> Frac(-816, 100)]),
          great_recession_impact |-> Dict([job_loss_percent |-> Frac(-417, 100)]),
          resilience_score |-> Frac(692, 10),
          resilience_rating |-> Str("Moderate")])
ResilienceEmpty == EmptyDict
ResilienceError == ErrorDict("No resilience data")

\* fetch_census_data
CensusFull ==
    Dict([growth |-> Dict([1y |-> PctChange(Num(200), Num(190))]),
          total_jobs |-> Num(200),
          unemployment_rate |-> Frac(476, 100),
          labor_force |-> Num(210),
          trends |-> List(<<CensusPoint(2023, 200, Frac(476, 100), 210),
                            CensusPoint(2022, 190, Num(5), 200)>>)])
CensusError ==
    Dict([trends |-> List(<<>>), error |-> Str("No Census data available")])

\* fetch_acs_data
AcsFull ==
    Dict([income_data |->
              Dict([median_household_income |-> Num(90000), data_year |-> Num(2022)]),
          labor_participation |->
              Dict([labor_force_participation_rate |-> Num(75), data_year |-> Num(2022)]),
          education_data |->
              Dict([percent_college_educated |-> Frac(4222, 100),
                    workforce_quality_rating |-> Str("High"),
                    data_year |-> Num(2022)])])
AcsError == ErrorDict("Failed to fetch ACS data")

\* geocode_address, get_fips_codes
GeoFound == Dict([lat |-> Frac(377749, 10000), lon |-> Frac(-1224194, 10000),
                  zip |-> Str("94102")])
FipsFound == Dict([state_fips |-> Str("06"), county_fips |-> Str("06075"),
                   tract_code |-> Str("06075017901")])
HTTPException(status_code, detail) ==
    [t |-> "exc", e |-> "HTTPException", status_code |-> status_code, detail |-> detail]
GeocodingFailed == HTTPException(400, "Geocoding failed")
AddressNotFound == HTTPException(404, "Address not found by geocoder.")
FccFailed == HTTPException(424, "Failed to retrieve FIPS codes from FCC API.")
FipsNotFound == HTTPException(404, "FIPS codes not found for the given address.")
IsHTTPException(x) == x.t = "exc" /\ x.e = "HTTPException"

(***************************************************************************)
(* The fan-out: the coroutines in the order the handler lists them         *)
(***************************************************************************)
(* The calculators, as functions of the series the provider returned.  A   *)
(* series is the sequence of its values, most recent first (the code sorts *)
(* it so); position k of the code is position k + 1 here.                  *)
(***************************************************************************)
\* a get_growth that falls back on the oldest observation of a short series
get_growth_oldest(data, steps) ==
    IF data[IF Len(data) > steps THEN steps + 1 ELSE Len(data)] = 0
        THEN IF data[1] > 0 THEN Inf ELSE Num(0)
        ELSE PctChange(Num(data[1]),
                       Num(data[IF Len(data) > steps THEN steps + 1 ELSE Len(data)]))
\* fetch_bls_lau_data.get_growth, with latest_emp = int(emp_data[0]['value'])
get_growth(data, steps) ==
    IF Len(data) > steps
        THEN IF data[steps + 1] = 0
                 THEN IF data[1] > 0 THEN Inf ELSE Num(0)
                 ELSE PctChange(Num(data[1]), Num(data[steps + 1]))
        ELSE None

\* fetch_bls_lau_data from emp_data on: what it computes from the employment series
fetch_bls_lau_data(emp_data) ==
    IF emp_data = <<>>
        THEN ErrorDict("No employment data available.")
        ELSE Dict([growth |-> Dict([6mo |-> get_growth(emp_data, 5),
                                    1y |-> get_growth(emp_data, 11),
                                    2y |-> get_growth(emp_data, 23),
                                    5y |-> get_growth(emp_data, 59)]),
                   total_jobs |-> Num(emp_data[1])])

\* fetch_national_employment_data.get_national_growth (values are in thousands)
get_national_growth(data, months_back) ==
    IF Len(data) > months_back /\ data[months_back + 1] * 1000 > 0
        THEN PctChange(Num(data[1] * 1000), Num(data[months_back + 1] * 1000))
        ELSE None

fetch_national_employment_data(data) ==
    IF data = <<>>
        THEN ErrorDict("No national employment data")
        ELSE Dict([national_growth |->
                      Dict([1y |-> get_national_growth(data, 11),
                            2y |-> get_national_growth(data, 23),
                            5y |-> get_national_growth(data, 59)])])

\* fetch_bls_qcew_sectors.get_wage_growth
get_wage_growth(wage_data_raw, years_back) ==
    IF Len(wage_data_raw) > years_back /\ wage_data_raw[years_back + 1] > 0
        THEN PctChange(Num(wage_data_raw[1]), Num(wage_data_raw[years_back + 1]))
        ELSE None

\* the "wage_data" member of fetch_bls_qcew_sectors' result
wage_info(wage_data_raw) ==
    IF wage_data_raw = <<>>
        THEN ErrorDict("No wage data available")
        ELSE Dict([current_avg_weekly_wage |-> Num(wage_data_raw[1]),
                   annual_equivalent |-> Round0(Num(wage_data_raw[1] * 52)),
                   wage_growth |-> Dict([1y |-> get_wage_growth(wage_data_raw, 1),
                                         3y |-> get_wage_growth(wage_data_raw, 3),
                                         5y |-> get_wage_growth(wage_data_raw, 5)])])

\* fetch_census_data: the growth windows over the yearly employed counts
CensusWindow(values, back) ==
    IF values[back + 1] > 0 THEN PctChange(Num(values[1]), Num(values[back + 1])) ELSE None
CensusBack == [1y |-> 1, 2y |-> 2, 5y |-> 5]
census_growth(values) ==
    Dict([w \in {w \in DOMAIN CensusBack : Len(values) > CensusBack[w]} |->
             CensusWindow(values, CensusBack[w])])

\* calculate_downturn_resilience, from the yearly averages data: year -> value
JobLoss(data, peak, trough) ==
    Dict([job_loss_percent |-> PctChange(Num(data[trough]), Num(data[peak]))])
Impacts(data) ==
    [k \in {k \in {"covid_impact", "great_recession_impact"} :
               IF k = "covid_impact"
                   THEN {2019, 2020} \subseteq DOMAIN data
                   ELSE {2007, 2009} \subseteq DOMAIN data} |->
        IF k = "covid_impact" THEN JobLoss(data, 2019, 2020) ELSE JobLoss(data, 2007, 2009)]
AddNum(x, y) == Frac(x.n * y.d + y.n * x.d, x.d * y.d)
\* sum(abs(r["job_loss_percent"]) for r in resilience.values()) / len(resilience)
AvgLoss(impacts) ==
    IF DOMAIN impacts = {"covid_impact", "great_recession_impact"}
        THEN DivNum(AddNum(AbsNum(impacts["covid_impact"].kv["job_loss_percent"]),
                           AbsNum(impacts["great_recession_impact"].kv["job_loss_percent"])),
                    Num(2))
        ELSE AbsNum(impacts[CHOOSE k \in DOMAIN impacts : TRUE].kv["job_loss_percent"])
\* max(0, min(100, 100 - (avg_loss * 5)))
MinNum(x, y) == IF GtNum(x, y) THEN y ELSE x
MaxNum(x, y) == IF GtNum(y, x) THEN y ELSE x
Score(avg_loss) == MaxNum(Num(0), MinNum(Num(100), SubNum(Num(100), MulNum(avg_loss, Num(5)))))
Rating(score) ==
    IF Gt(score, 70) THEN Str("High") ELSE IF Gt(score, 50) THEN Str("Moderate") ELSE Str("Low")
Scored(impacts, score) ==
    Merge(Dict(impacts),
          Dict([resilience_score |-> Round1(score), resilience_rating |-> Rating(score)]))
calculate_downturn_resilience(data) ==
    IF \/ ({2019, 2020} \subseteq DOMAIN data /\ data[2019] = 0)
       \/ ({2007, 2009} \subseteq DOMAIN data /\ data[2007] = 0)
        THEN Exc("ZeroDivisionError")
        ELSE IF DOMAIN Impacts(data) = {}
                 THEN EmptyDict
                 ELSE Scored(Impacts(data), Score(AvgLoss(Impacts(data))))

(***************************************************************************)
(* fetch_bls_lau_data from the provider's answer on.  An observation has   *)
(* a year, a period (the month 1..12) and the provider's text of the       *)
(* value: a number, or "-" where the provider has none.                    *)
(***************************************************************************)
Observation(year, period, value) == [year |-> year, period |-> period, value |-> value]
Dash == Str("-")
\* int(text) and float(text) return
Parses(value) == value.t = "num"

\* sorted(data, key=lambda d: (d['year'], d['period']), reverse=True), for
\* observations of distinct months
MonthKey(d) == d.year * 100 + d.period
Without(data, at) == [k \in 1..(Len(data) - 1) |-> IF k < at THEN data[k] ELSE data[k + 1]]
MostRecentAt(data, latest) == CHOOSE i \in DOMAIN data : MonthKey(data[i]) = latest
RECURSIVE SortRecentFirst(_)
SortRecentFirst(data) ==
    IF Len(data) = 0 THEN <<>>
    ELSE <<data[MostRecentAt(data, SetMax({MonthKey(data[i]) : i \in DOMAIN data}))]>>
         \o SortRecentFirst(
                Without(data,
                        MostRecentAt(data, SetMax({MonthKey(data[i]) : i \in DOMAIN data}))))

\* the positions of emp_data whose value is read with int(): the latest one,
\* the one each growth window looks back to, and the six of the monthly chart
IntRead(emp_data) ==
    {i \in DOMAIN emp_data : i <= 6 \/ i \in {12, 24, 60}}
IntValues(data) ==
    [i \in DOMAIN data |-> IF Parses(data[i].value) THEN data[i].value.n ELSE 0]

\* calculate_yearly_trends: the average of each year's values that parse, the
\* latest year first; a year none of whose values parses is left with an
\* empty list, and sum(vals) / len(vals) divides by zero
ParsedOfYear(data, y) == {i \in DOMAIN data : data[i].year = y /\ Parses(data[i].value)}
RECURSIVE SumValues(_, _)
SumValues(data, at) ==
    IF at = {} THEN Num(0)
    ELSE AddNum(data[SetMax(at)].value, SumValues(data, at \ {SetMax(at)}))
YearlyRaises(data) ==
    \E i \in DOMAIN data : ParsedOfYear(data, data[i].year) = {}
YearOfRank(years, i) == CHOOSE y \in years : Cardinality({z \in years : z > y}) = i - 1
calculate_yearly_trends(data_series) ==
    List([i \in 1..Cardinality({data_series[k].year : k \in DOMAIN data_series}) |->
            TrendPoint(YearOfRank({data_series[k].year : k \in DOMAIN data_series}, i),
                       DivNum(SumValues(data_series,
                                        ParsedOfYear(data_series,
                                            YearOfRank({data_series[k].year :
                                                           k \in DOMAIN data_series}, i))),
                              Num(Cardinality(
                                      ParsedOfYear(data_series,
                                          YearOfRank({data_series[k].year :
                                                         k \in DOMAIN data_series}, i))))))])

\* the result assembled at lines 172-182 (without the monthly chart)
LauResult(emp_data, unemp_data, labor_data) ==
    Dict([growth |-> Dict([6mo |-> get_growth(IntValues(emp_data), 5),
                           1y |-> get_growth(IntValues(emp_data), 11),
                           2y |-> get_growth(IntValues(emp_data), 23),
                           5y |-> get_growth(IntValues(emp_data), 59)]),
          total_jobs |-> emp_data[1].value,
          unemployment_rate |-> IF unemp_data = <<>> THEN None ELSE unemp_data[1].value,
          labor_force |-> IF labor_data = <<>> THEN None ELSE labor_data[1].value,
          trends |-> calculate_yearly_trends(emp_data),
          employment_trends |-> calculate_yearly_trends(emp_data),
          unemployment_rate_trends |-> calculate_yearly_trends(unemp_data),
          labor_force_trends |-> calculate_yearly_trends(labor_data)])

\* lines 110-182: series is result['Results']['series'], each item its 'data'
lau_from_series(series) ==
    IF series = <<>> THEN ErrorDict("No LAU data found for this location.")
    ELSE IF Len(series) < 3 THEN Exc("IndexError")
    ELSE IF series[1] = <<>> THEN ErrorDict("No employment data available.")
    ELSE IF \E i \in IntRead(series[1]) : ~Parses(SortRecentFirst(series[1])[i].value)
        THEN Exc("ValueError")
    ELSE IF \E k \in {2, 3} : series[k] # <<>> /\ ~Parses(series[k][1].value)
        THEN Exc("ValueError")
    ELSE IF \E k \in {1, 2, 3} : YearlyRaises(series[k]) THEN Exc("ZeroDivisionError")
    ELSE LauResult(SortRecentFirst(series[1]), series[2], series[3])

(***************************************************************************)
Tract == <<"tract">>
Zip == <<"zip">>
County == <<"county">>

CountyTasks == <<"lau", "qcew", "national", "resilience">>
GranularTasks == <<"census", "acs">>
Sources == {"lau", "qcew", "national", "resilience", "census", "acs"}

granular_tasks_added(geo_type) == geo_type \in {Tract, Zip}
Tasks(geo_type) ==
    IF granular_tasks_added(geo_type) THEN CountyTasks \o GranularTasks ELSE CountyTasks

Pending == [t |-> "pending"]
IsPending(x) == x.t = "pending"

\* a gather that cancels the tasks still running when one raises (what
\* return_exceptions=True rules out)
GatherStoreCancelsSiblings(res, i, outcome) ==
    [k \in DOMAIN res |->
        IF k = i THEN outcome
        ELSE IF IsException(outcome) /\ IsPending(res[k]) THEN Exc("CancelledError")
        ELSE res[k]]
\* asyncio.gather(*tasks, return_exceptions=True): the outcome of the task at
\* position i is stored at position i of the result list, and a task that
\* raises leaves its siblings running
GatherStore(res, i, outcome) == [res EXCEPT ![i] = outcome]

\* a join that waits until every task has returned a value
GatherReturnsValues(res) == \A i \in DOMAIN res : ~IsPending(res[i]) /\ ~IsException(res[i])
\* gather returns once every task has an outcome
GatherReturns(res) == \A i \in DOMAIN res : ~IsPending(res[i])

get_result(res, index, default) ==
    IF ~IsException(res[index]) THEN res[index] ELSE default

(***************************************************************************)
(* get_job_growth, from the gather result to the report (the code between  *)
(* the join and the cache write).  raised names the exception the code     *)
(* raises on the way, if any; result is the report otherwise.              *)
(***************************************************************************)
CensusNote ==
    Str("Granular data from Census is less timely (annual estimates) than county-level BLS data (monthly).")
Unknown == Str("Unknown")

\* "strong" if x > hi else "moderate" if x > 0 else "weak"
Strength(x, hi) ==
    IF Gt(x, hi) THEN Str("strong") ELSE IF Gt(x, 0) THEN Str("moderate") ELSE Str("weak")

\* lines 632-642: the county context
CountyContext(lau_data, qcew_data, national_data, resilience_data) ==
    IF ~Has(lau_data, "error")
        THEN Merge(Merge(Merge(Dict([source |-> Str("BLS (Monthly/Quarterly)")]),
                               lau_data),
                         qcew_data),
                   Dict([downturn_resilience |-> resilience_data,
                         comparative_performance |->
                             compare_local_to_national(Get(lau_data, "growth", EmptyDict),
                                                       national_data)]))
    ELSE IF Truthy(Get(lau_data, "error", None))
        THEN Dict([error |-> Item(lau_data, "error")])
    ELSE None

\* lines 626-628: the projection, when the granular tasks were added
Projection(granular, census_emp_data, lau_data) ==
    IF granular /\ IsDict(census_emp_data) /\ IsDict(lau_data)
        THEN project_census_data(census_emp_data, lau_data)
        ELSE <<census_emp_data, <<>>>>

CensusUsable(census_emp_data) ==
    IsDict(census_emp_data) /\ ~Has(census_emp_data, "error")

\* lines 644-655: the granular view
GranularData(granular, census_emp_data, acs_other_data) ==
    IF ~granular THEN None
    ELSE IF CensusUsable(census_emp_data)
        THEN Merge(Merge(Dict([source |-> Str("Census ACS 5-Year (Annual)")]),
                         census_emp_data),
                   IF IsDict(acs_other_data) THEN acs_other_data ELSE EmptyDict)
    ELSE Dict([error |->
                 IF IsDict(census_emp_data)
                     THEN Get(census_emp_data, "error", None)
                     ELSE Str("Unknown error")])

Notes(granular, census_emp_data, projection_notes) ==
    IF granular /\ CensusUsable(census_emp_data)
        THEN <<CensusNote>> \o projection_notes
        ELSE <<>>

Growth1y(lau_data) == Get(Get(lau_data, "growth", EmptyDict), "1y", Num(0))
WageGrowth1y(qcew_data) ==
    Get(Get(Get(qcew_data, "wage_data", EmptyDict), "wage_growth", EmptyDict),
        "1y", Num(0))

\* the exception lines 658-664 raise: None > 2, or None.get
SummaryRaises(lau_data, qcew_data, county_context) ==
    IF IsNone(Growth1y(lau_data)) \/ IsNone(WageGrowth1y(qcew_data)) THEN Exc("TypeError")
    ELSE IF IsNone(county_context) THEN Exc("AttributeError")
    ELSE None

\* lines 658-664
CreSummary(lau_data, qcew_data, acs_other_data, resilience_data, county_context) ==
    Dict([employment_growth_strength |-> Strength(Growth1y(lau_data), 2),
          wage_growth_strength |-> Strength(WageGrowth1y(qcew_data), 3),
          workforce_quality |->
              IF Truthy(acs_other_data) /\ ~Truthy(Get(acs_other_data, "error", None))
                  THEN Get(Get(acs_other_data, "education_data", EmptyDict),
                           "workforce_quality_rating", Unknown)
                  ELSE Unknown,
          recession_resilience |->
              IF ~Truthy(Get(resilience_data, "error", None))
                  THEN Get(resilience_data, "resilience_rating", Unknown)
                  ELSE Unknown,
          vs_national_performance |->
              IF \E p \in DOMAIN Get(county_context, "comparative_performance", EmptyDict).kv :
                    Truthy(Get(Get(county_context, "comparative_performance", EmptyDict).kv[p],
                               "outperforming", Bool(FALSE)))
                  THEN Str("outperforming")
                  ELSE Str("underperforming")])

\* a report that leaves each view where tract and zip requests have it
ReportRolesKept(geo_type, geo, fips, county_context, granular_data, cre_summary, notes) ==
    Dict([geo |-> Merge(geo, fips),
          county_context |-> county_context,
          granular_data |-> granular_data,
          cre_summary |-> cre_summary,
          notes |-> List(notes)])
\* lines 666-676: a county request shows the county context as the primary view
Report(geo_type, geo, fips, county_context, granular_data, cre_summary, notes) ==
    Dict([geo |-> Merge(geo, fips),
          county_context |->
              IF geo_type = County /\ Truthy(county_context) THEN None ELSE county_context,
          granular_data |->
              IF geo_type = County /\ Truthy(county_context)
                  THEN county_context ELSE granular_data,
          cre_summary |-> cre_summary,
          notes |-> List(notes)])

\* a handler that reads the two granular outcomes at each other's position
LocalsGranularSwapped(geo_type, res) ==
    [lau_data |-> get_result(res, 1, ErrorDict("Failed to fetch LAU data")),
     qcew_data |-> get_result(res, 2, ErrorDict("Failed to fetch QCEW data")),
     national_data |-> get_result(res, 3, ErrorDict("Failed to fetch national data")),
     resilience_data |-> get_result(res, 4, ErrorDict("Failed to fetch resilience data")),
     census_emp_data |->
        IF granular_tasks_added(geo_type)
            THEN get_result(res, 6, ErrorDict("Failed to fetch Census employment"))
            ELSE None,
     acs_other_data |->
        IF granular_tasks_added(geo_type)
            THEN get_result(res, 5, ErrorDict("Failed to fetch ACS demographics"))
            ELSE None]
\* lines 615-624: the outcome of each source, by its position in the task list
Locals(geo_type, res) ==
    [lau_data |-> get_result(res, 1, ErrorDict("Failed to fetch LAU data")),
     qcew_data |-> get_result(res, 2, ErrorDict("Failed to fetch QCEW data")),
     national_data |-> get_result(res, 3, ErrorDict("Failed to fetch national data")),
     resilience_data |-> get_result(res, 4, ErrorDict("Failed to fetch resilience data")),
     census_emp_data |->
        IF granular_tasks_added(geo_type)
            THEN get_result(res, 5, ErrorDict("Failed to fetch Census employment"))
            ELSE None,
     acs_other_data |->
        IF granular_tasks_added(geo_type)
            THEN get_result(res, 6, ErrorDict("Failed to fetch ACS demographics"))
            ELSE None]

\* the report from the sources' outcomes and the projection
ComposeFrom(geo_type, geo, fips, l, projection, county_context) ==
    [raised |-> SummaryRaises(l.lau_data, l.qcew_data, county_context),
     locals |-> l,
     result |->
        IF ~IsNone(SummaryRaises(l.lau_data, l.qcew_data, county_context)) THEN None
        ELSE Report(geo_type, geo, fips, county_context,
                    GranularData(granular_tasks_added(geo_type), projection[1],
                                 l.acs_other_data),
                    CreSummary(l.lau_data, l.qcew_data, l.acs_other_data,
                               l.resilience_data, county_context),
                    Notes(granular_tasks_added(geo_type), projection[1], projection[2]))]

ComposeLocals(geo_type, geo, fips, l) ==
    ComposeFrom(geo_type, geo, fips, l,
                Projection(granular_tasks_added(geo_type), l.census_emp_data, l.lau_data),
                CountyContext(l.lau_data, l.qcew_data, l.national_data, l.resilience_data))

compose(geo_type, geo, fips, res) ==
    ComposeLocals(geo_type, geo, fips, Locals(geo_type, res))

(***************************************************************************)
(* State                                                                   *)
(***************************************************************************)
NumClients == 2
Requests == 1..NumClients

TTL == 3600

Addresses == {<<"A">>}
GeoTypes == {Tract, Zip, County}

\* f"{address}:{geo_type}:v2"
CacheKey(address, geo_type) == address \o <<":">> \o geo_type \o <<":", "v2">>
Keys == {CacheKey(a, g) : a \in Addresses, g \in GeoTypes}

\* redis GET of a key that is not there; a report_cache table without the row
Nil == [j |-> "nil"]
NoRow == [j |-> "norow"]
NoResponse == [status |-> 0]
NoInput == [kind |-> "none"]
NotComputed == [fn |-> "none"]

VARIABLES
    input,        \* what a calculator, the projector or the comparator is given
    output,       \* what it returned
    scenario,     \* which clients and collaborator answers this run has (see env)
    redis,        \* fast tier: key -> stored text, or Nil
    ttl,          \* fast tier: key -> seconds to live set with the entry, 0 for none
    written,      \* key -> the report whose text the last SETEX stored, while it stays
    report_cache, \* persistent tier: the report_cache table, key -> row
    pc,           \* request -> where its handler is suspended
    cached,       \* request -> what its GET of the key returned
    args,         \* request -> address, geo_type, flush_cache
    loc,          \* request -> geo, fips
    results,      \* request -> the list gather is filling
    produced,     \* request -> what the task at each position of the fan-out produced
    used,         \* request -> lau_data, qcew_data, ... as the handler bound them
    result,       \* request -> the report the handler composed
    response,     \* request -> what the client received
    calls         \* request -> the calls it made to the cache and the collaborators

handler_vars == <<scenario, redis, ttl, written, report_cache, pc, cached, args, loc, results,
                  produced, used, result, response, calls>>
vars == <<input, output, handler_vars>>

\* one client asking for geo_type; every answer the collaborators can give
FanEnv(geo_type) ==
    [clients |-> {1},
     addresses |-> Addresses,
     geo_types |-> {geo_type},
     flush |-> BOOLEAN,
     geocoder |-> {GeoFound, GeocodingFailed, AddressNotFound, ClientError},
     resolver |-> {FipsFound, FccFailed, FipsNotFound, ClientError},
     store |-> {Stored, ConnectionError},
     sources |->
        [lau |-> {LauFull, LauShort, LauError, ClientError},
         qcew |-> {QcewFull, QcewShortWage, QcewNoWage, QcewError, ClientError},
         national |-> {NationalFull, NationalShort, NationalError, ClientError},
         resilience |-> {ResilienceFull, ResilienceEmpty, ResilienceError, ClientError},
         census |-> {CensusFull, CensusError, ClientError},
         acs |-> {AcsFull, AcsError, ClientError}]]

\* concurrent clients of one key; the county series is there or not
ConcurrentEnv ==
    [clients |-> Requests,
     addresses |-> Addresses,
     geo_types |-> {County},
     flush |-> BOOLEAN,
     geocoder |-> {GeoFound},
     resolver |-> {FipsFound},
     store |-> {Stored},
     sources |->
        [lau |-> {LauFull, LauError},
         qcew |-> {QcewFull},
         national |-> {NationalFull},
         resilience |-> {ResilienceFull},
         census |-> {CensusFull},
         acs |-> {AcsFull}]]

\* one client of a tract or a county report; every collaborator answers or
\* raises, and the county series may be too short for the summary
LiveEnv ==
    [clients |-> {1},
     addresses |-> Addresses,
     geo_types |-> {Tract, County},
     flush |-> BOOLEAN,
     geocoder |-> {GeoFound, AddressNotFound, ClientError},
     resolver |-> {FipsFound, FccFailed, ClientError},
     store |-> {Stored, ConnectionError},
     sources |->
        [lau |-> {LauFull, LauShort, ClientError},
         qcew |-> {QcewFull, ClientError},
         national |-> {NationalFull, ClientError},
         resilience |-> {ResilienceFull, ClientError},
         census |-> {CensusFull, ClientError},
         acs |-> {AcsFull, ClientError}]]

\* what this run's clients ask and what the collaborators may answer
env ==
    CASE scenario = "concurrent" -> ConcurrentEnv
      [] scenario = "tract" -> FanEnv(Tract)
      [] scenario = "zip" -> FanEnv(Zip)
      [] scenario = "county" -> FanEnv(County)
      [] scenario = "live" -> LiveEnv
      [] scenario = "calculators" -> [ConcurrentEnv EXCEPT !.clients = {}]

cache_key(r) == CacheKey(args[r].address, args[r].geo_type)

Ok(body, served) == [status |-> 200, body |-> body, served |-> served]
Failed(status_code, detail) ==
    [status |-> status_code, body |-> Dict([detail |-> detail]), served |-> "error"]
\* the outer boundary without its first clause: every exception becomes the 500
RaiseAllAsUnexpected(e) == Failed(500, FStr("An unexpected error occurred: ", Str(e.e)))
\* except HTTPException: raise e / except Exception: raise HTTPException(500, ...)
Raise(e) ==
    IF IsHTTPException(e) THEN Failed(e.status_code, Str(e.detail))
    ELSE Failed(500, FStr("An unexpected error occurred: ", Str(e.e)))

(***************************************************************************)
(* The handler, one action per await                                       *)
(***************************************************************************)
\* a client sends GET /api/job-growth
Start(r) ==
    /\ pc[r] = "idle"
    /\ \E address \in env.addresses, geo_type \in env.geo_types, flush_cache \in env.flush :
          /\ args' = [args EXCEPT ![r] = [address |-> address, geo_type |-> geo_type,
                                          flush_cache |-> flush_cache]]
          /\ pc' = [pc EXCEPT ![r] = IF flush_cache THEN "delete" ELSE "get"]
    /\ UNCHANGED <<input, output>>
    /\ UNCHANGED <<scenario, redis, ttl, written, report_cache, cached, loc, results,
                   produced, used, result, response, calls>>

\* if flush_cache: await redis_client.delete(cache_key)
CacheDelete(r) ==
    /\ pc[r] = "delete"
    /\ redis' = [redis EXCEPT ![cache_key(r)] = Nil]
    /\ ttl' = [ttl EXCEPT ![cache_key(r)] = 0]
    /\ written' = [written EXCEPT ![cache_key(r)] = None]
    /\ calls' = [calls EXCEPT ![r] = @ \cup {"delete"}]
    /\ pc' = [pc EXCEPT ![r] = "get"]
    /\ UNCHANGED <<input, output>>
    /\ UNCHANGED <<scenario, report_cache, cached, args, loc, results, produced, used,
                   result, response>>

\* the read path: a text that is there and decodes is returned ("hit"); the
\* handler goes on to compute when the key is not there and, having caught
\* JSONDecodeError, when the text does not decode ("miss")
\* (two other read paths: one that never answers from the fast tier, one that
\* does not catch JSONDecodeError)
ReadPathAlwaysMiss(text) == "miss"
ReadPathUncaught(text) ==
    IF text = Nil THEN "miss" ELSE IF JSONDecodeError(text) THEN "raise" ELSE "hit"
ReadPath(text) ==
    IF text = Nil THEN "miss" ELSE IF JSONDecodeError(text) THEN "miss" ELSE "hit"

\* cached = await redis_client.get(cache_key); if cached: return json.loads(cached)
CacheGet(r) ==
    /\ pc[r] = "get"
    /\ calls' = [calls EXCEPT ![r] = @ \cup {"get"}]
    /\ cached' = [cached EXCEPT ![r] = redis[cache_key(r)]]
    /\ CASE ReadPath(redis[cache_key(r)]) = "hit" ->
                /\ response' = [response EXCEPT ![r] =
                                   Ok(json_loads(redis[cache_key(r)]), "cache")]
                /\ pc' = [pc EXCEPT ![r] = "done"]
         [] ReadPath(redis[cache_key(r)]) = "miss" ->
                /\ pc' = [pc EXCEPT ![r] = "geocode"]
                /\ UNCHANGED response
         [] OTHER ->
                \* an exception of the read leaves the handler
                /\ response' = [response EXCEPT ![r] = Raise(Exc("JSONDecodeError"))]
                /\ pc' = [pc EXCEPT ![r] = "done"]
    /\ UNCHANGED <<input, output>>
    /\ UNCHANGED <<scenario, redis, ttl, written, report_cache, args, loc, results, produced,
                   used, result>>

\* geo = await geocode_address(address)
Geocode(r) ==
    /\ pc[r] = "geocode"
    /\ calls' = [calls EXCEPT ![r] = @ \cup {"geocode"}]
    /\ \E answer \in env.geocoder :
          IF IsException(answer)
              THEN /\ response' = [response EXCEPT ![r] = Raise(answer)]
                   /\ pc' = [pc EXCEPT ![r] = "done"]
                   /\ UNCHANGED loc
              ELSE /\ loc' = [loc EXCEPT ![r].geo = answer]
                   /\ pc' = [pc EXCEPT ![r] = "fips"]
                   /\ UNCHANGED response
    /\ UNCHANGED <<input, output>>
    /\ UNCHANGED <<scenario, redis, ttl, written, report_cache, cached, args, results,
                   produced, used, result>>

\* fips = await get_fips_codes(geo); the task list; gather starts every task
GetFips(r) ==
    /\ pc[r] = "fips"
    /\ calls' = [calls EXCEPT ![r] = @ \cup {"fips"}]
    /\ \E answer \in env.resolver :
          IF IsException(answer)
              THEN /\ response' = [response EXCEPT ![r] = Raise(answer)]
                   /\ pc' = [pc EXCEPT ![r] = "done"]
                   /\ UNCHANGED <<loc, results, produced>>
              ELSE /\ loc' = [loc EXCEPT ![r].fips = answer]
                   /\ results' = [results EXCEPT ![r] =
                                     [i \in DOMAIN Tasks(args[r].geo_type) |-> Pending]]
                   /\ produced' = [produced EXCEPT ![r] =
                                     [i \in DOMAIN Tasks(args[r].geo_type) |-> Pending]]
                   /\ pc' = [pc EXCEPT ![r] = "gather"]
                   /\ UNCHANGED response
    /\ UNCHANGED <<input, output>>
    /\ UNCHANGED <<scenario, redis, ttl, written, report_cache, cached, args, used, result>>

\* the task at position i of the fan-out returns or raises
TaskComplete(r, i) ==
    /\ pc[r] = "gather"
    /\ i \in DOMAIN produced[r]
    /\ IsPending(produced[r][i])
    /\ \E outcome \in env.sources[Tasks(args[r].geo_type)[i]] :
          /\ produced' = [produced EXCEPT ![r][i] = outcome]
          /\ results' = [results EXCEPT ![r] = GatherStore(@, i, outcome)]
    /\ calls' = [calls EXCEPT ![r] = @ \cup {Tasks(args[r].geo_type)[i]}]
    /\ UNCHANGED <<input, output>>
    /\ UNCHANGED <<scenario, redis, ttl, written, report_cache, pc, cached, args, loc, used,
                   result, response>>

\* results = await asyncio.gather(...) returns; the report is composed
Join(r) ==
    /\ pc[r] = "gather"
    /\ GatherReturns(results[r])
    /\ LET body == compose(args[r].geo_type, loc[r].geo, loc[r].fips, results[r])
       IN  /\ used' = [used EXCEPT ![r] = body.locals]
           /\ IF IsNone(body.raised)
                  THEN /\ result' = [result EXCEPT ![r] = body.result]
                       /\ pc' = [pc EXCEPT ![r] = "setex"]
                       /\ UNCHANGED response
                  ELSE /\ response' = [response EXCEPT ![r] = Raise(body.raised)]
                       /\ pc' = [pc EXCEPT ![r] = "done"]
                       /\ UNCHANGED result
    /\ UNCHANGED <<input, output>>
    /\ UNCHANGED <<scenario, redis, ttl, written, report_cache, cached, args, loc, results,
                   produced, calls>>

\* a write that reaches the store although the call raises to the handler
CacheSetexThenRaise(r) ==
    /\ pc[r] = "setex"
    /\ calls' = [calls EXCEPT ![r] = @ \cup {"setex"}]
    /\ redis' = [redis EXCEPT ![cache_key(r)] = json_dumps(result[r])]
    /\ ttl' = [ttl EXCEPT ![cache_key(r)] = TTL]
    /\ written' = [written EXCEPT ![cache_key(r)] = result[r]]
    /\ \E answer \in env.store :
          response' = [response EXCEPT ![r] =
                          IF IsException(answer) THEN Raise(answer)
                          ELSE Ok(result[r], "fresh")]
    /\ pc' = [pc EXCEPT ![r] = "done"]
    /\ UNCHANGED <<input, output>>
    /\ UNCHANGED <<scenario, report_cache, cached, args, loc, results, produced, used,
                   result>>

\* a write that keeps the entry another request already stored (SET ... NX)
CacheSetexIfAbsent(r) ==
    /\ pc[r] = "setex"
    /\ calls' = [calls EXCEPT ![r] = @ \cup {"setex"}]
    /\ IF redis[cache_key(r)] = Nil
          THEN /\ redis' = [redis EXCEPT ![cache_key(r)] = json_dumps(result[r])]
               /\ ttl' = [ttl EXCEPT ![cache_key(r)] = TTL]
               /\ written' = [written EXCEPT ![cache_key(r)] = result[r]]
          ELSE UNCHANGED <<redis, ttl, written>>
    /\ response' = [response EXCEPT ![r] = Ok(result[r], "fresh")]
    /\ pc' = [pc EXCEPT ![r] = "done"]
    /\ UNCHANGED <<input, output>>
    /\ UNCHANGED <<scenario, report_cache, cached, args, loc, results, produced, used,
                   result>>

\* await redis_client.setex(cache_key, 3600, json.dumps(result)); return result
CacheSetex(r) ==
    /\ pc[r] = "setex"
    /\ calls' = [calls EXCEPT ![r] = @ \cup {"setex"}]
    /\ \E answer \in env.store :
          IF IsException(answer)
              THEN /\ response' = [response EXCEPT ![r] = Raise(answer)]
                   /\ UNCHANGED <<redis, ttl, written>>
              ELSE /\ redis' = [redis EXCEPT ![cache_key(r)] = json_dumps(result[r])]
                   /\ ttl' = [ttl EXCEPT ![cache_key(r)] = TTL]
                   /\ written' = [written EXCEPT ![cache_key(r)] = result[r]]
                   /\ response' = [response EXCEPT ![r] = Ok(result[r], "fresh")]
    /\ pc' = [pc EXCEPT ![r] = "done"]
    /\ UNCHANGED <<input, output>>
    /\ UNCHANGED <<scenario, report_cache, cached, args, loc, results, produced, used,
                   result>>

\* redis drops an entry whose time to live has run out
Expire(k) ==
    /\ ttl[k] > 0
    /\ redis' = [redis EXCEPT ![k] = Nil]
    /\ ttl' = [ttl EXCEPT ![k] = 0]
    /\ written' = [written EXCEPT ![k] = None]
    /\ UNCHANGED <<input, output>>
    /\ UNCHANGED <<scenario, report_cache, pc, cached, args, loc, results, produced, used,
                   result, response, calls>>

Next ==
    \/ \E r \in Requests : Start(r)
    \/ \E r \in Requests : CacheDelete(r)
    \/ \E r \in Requests : CacheGet(r)
    \/ \E r \in Requests : Geocode(r)
    \/ \E r \in Requests : GetFips(r)
    \/ \E r \in Requests, i \in 1..6 : TaskComplete(r, i)
    \/ \E r \in Requests : Join(r)
    \/ \E r \in Requests : CacheSetex(r)
    \/ \E k \in Keys : Expire(k)

(***************************************************************************)
(* Initial states                                                          *)
(***************************************************************************)
\* a report an earlier request composed and cached
OldReport ==
    compose(County, GeoFound, FipsFound,
            <<LauFull, QcewFull, NationalFull, ResilienceFull>>).result

InitRequests ==
    /\ pc = [r \in Requests |-> IF r \in env.clients THEN "idle" ELSE "none"]
    /\ args = [r \in Requests |->
                 [address |-> <<>>, geo_type |-> <<>>, flush_cache |-> FALSE]]
    /\ cached = [r \in Requests |-> Nil]
    /\ loc = [r \in Requests |-> [geo |-> None, fips |-> None]]
    /\ results = [r \in Requests |-> <<>>]
    /\ produced = [r \in Requests |-> <<>>]
    /\ used = [r \in Requests |-> None]
    /\ result = [r \in Requests |-> None]
    /\ response = [r \in Requests |-> NoResponse]
    /\ calls = [r \in Requests |-> {}]

\* the fast tier is empty, or holds under the key the clients ask for an
\* unreadable text (stored by something else, with no expiry) or an earlier report
InitCache(entries) ==
    \E entry \in entries :
        LET asked == {CacheKey(a, g) : a \in env.addresses, g \in env.geo_types}
        IN  /\ redis = [k \in Keys |-> IF k \in asked THEN entry.text ELSE Nil]
            /\ ttl = [k \in Keys |-> IF k \in asked THEN entry.ttl ELSE 0]
            /\ written = [k \in Keys |-> IF k \in asked THEN entry.report ELSE None]

NoEntry == [text |-> Nil, ttl |-> 0, report |-> None]
CorruptEntry == [text |-> Garbage, ttl |-> 0, report |-> None]
OldEntry == [text |-> json_dumps(OldReport), ttl |-> TTL, report |-> OldReport]

\* concurrent clients of one key, both stores empty
Init ==
    /\ input = NoInput /\ output = NotComputed
    /\ scenario = "concurrent"
    /\ InitCache({NoEntry})
    /\ report_cache = [k \in Keys |-> NoRow]
    /\ InitRequests

\* one client, any collaborator answers, any fast-tier entry; the table holds rows
InitFan ==
    /\ input = NoInput /\ output = NotComputed
    /\ scenario \in {"tract", "zip", "county"}
    /\ InitCache({NoEntry, CorruptEntry, OldEntry})
    /\ report_cache = [k \in Keys |-> [result |-> json_dumps(OldReport)]]
    /\ InitRequests

Spec == Init /\ [][Next]_vars
SpecFan == InitFan /\ [][Next]_vars

\* every await of a request that was sent returns: the cache answers, the
\* geocoder and the resolver answer or raise, every task of the fan-out
\* completes, gather returns
Returns(r) ==
    \/ CacheDelete(r) \/ CacheGet(r) \/ Geocode(r) \/ GetFips(r)
    \/ \E i \in 1..6 : TaskComplete(r, i)
    \/ CacheSetex(r)
\* weak fairness of Join(r), with its guard written out
GatherReady(r) == pc[r] = "gather" /\ GatherReturns(results[r])
JoinReturns(r) == []<>(~GatherReady(r)) \/ []<><<Join(r)>>_vars
InitLive ==
    /\ input = NoInput /\ output = NotComputed
    /\ scenario = "live"
    /\ InitCache({NoEntry, CorruptEntry, OldEntry})
    /\ report_cache = [k \in Keys |-> [result |-> json_dumps(OldReport)]]
    /\ InitRequests
SpecLive ==
    InitLive /\ [][Next]_vars /\ \A r \in Requests : WF_vars(Returns(r)) /\ JoinReturns(r)

(***************************************************************************)
(* The calculators on their own: a run starts with one input and applies   *)
(* to it the functions that take such an input.                            *)
(***************************************************************************)
MaxObservations == 61
Values == {0, 100, 110}
\* a series of n observations: the latest value, then n - 1 times an earlier one
SeriesOf(n, latest, past) == [i \in 1..n |-> IF i = 1 THEN latest ELSE past]
\* a gap-free monthly series of n observations whose value falls by 10 a
\* month into the past
FallingBack(n) == [i \in 1..n |-> 2000 - 10 * (i - 1)]
SeriesInputs ==
    {[kind |-> "series", data |-> SeriesOf(n, latest, past)] :
        n \in 0..MaxObservations, latest \in Values, past \in Values}
    \cup {[kind |-> "series", data |-> FallingBack(n)] : n \in 1..MaxObservations}

\* yearly averages around the two downturns: the years the provider returned,
\* the value of the peak years and of each trough year
YearSets == {{}, {2019}, {2019, 2020}, {2007, 2009}, {2007, 2009, 2019, 2020}}
Peaks == {0, 10000}
Troughs == {10000, 9401, 9400, 9000, 5000}
YearlyOf(years, peak, covid, recession) ==
    [y \in years |-> IF y \in {2007, 2019} THEN peak ELSE IF y = 2020 THEN covid ELSE recession]
YearlyInputs ==
    {[kind |-> "yearly", data |-> YearlyOf(years, peak, covid, recession)] :
        years \in YearSets, peak \in Peaks, covid \in Troughs, recession \in Troughs}

\* the projector's inputs: an annual result whose latest year is 2022 or 2023
\* and a county result whose yearly trends cover some of the years from 2021
\* to MaxGap years after 2022; the county values rise, or fall to 0 in 2023,
\* or rise faster than the labor force
MaxGap == 2
CountyYears == 2021..(2022 + MaxGap)
EmpRising == [y \in CountyYears |->
                 CASE y <= 2022 -> 1000 [] y = 2023 -> 1050 [] OTHER -> 1029]
EmpToZero == [y \in CountyYears |->
                 CASE y <= 2022 -> 1000 [] y = 2023 -> 0 [] OTHER -> 500]
EmpSurging == [y \in CountyYears |-> IF y <= 2022 THEN 1000 ELSE 1200]
LaborForce == [y \in CountyYears |-> IF y <= 2022 THEN 1100 ELSE 1155]
\* calculate_yearly_trends: one point a year, the latest year first
YearlyTrends(years, table) ==
    List([i \in 1..Cardinality(years) |->
            TrendPoint(CHOOSE y \in years : Cardinality({z \in years : z > y}) = i - 1,
                       Num(table[CHOOSE y \in years :
                                    Cardinality({z \in years : z > y}) = i - 1]))])
CountyResult(years, table) ==
    Dict([employment_trends |-> YearlyTrends(years, table),
          labor_force_trends |-> YearlyTrends(years, LaborForce)])
AnnualResult(latest) ==
    Dict([growth |-> Dict([1y |-> PctChange(Num(1000), Num(990))]),
          total_jobs |-> Num(1000),
          unemployment_rate |-> Frac(909, 100),
          labor_force |-> Num(1100),
          trends |-> List(<<CensusPoint(latest, 1000, Frac(909, 100), 1100),
                            CensusPoint(latest - 1, 990, Num(10), 1100)>>)])
ProjectorInputs ==
    {[kind |-> "projector", census |-> census, county |-> county] :
        census \in {AnnualResult(2022), AnnualResult(2023), CensusError},
        county \in {CountyResult(years, table) :
                        years \in SUBSET CountyYears,
                        table \in {EmpRising, EmpToZero, EmpSurging}}
                   \cup {LauError}}

\* the comparator's inputs: the county growth windows and the national result
LocalRates == {None, Num(0), Frac(21, 10), Frac(-1, 2), Inf}
NationalRates == {None, Num(0), Frac(21, 10), Frac(9, 5)}
RatesInputs ==
    {[kind |-> "rates", local |-> local, national |-> national] :
        local \in {Dict([6mo |-> Frac(1, 2), 1y |-> a, 2y |-> b, 5y |-> c]) :
                      a \in LocalRates, b \in LocalRates, c \in {None, Num(9)}}
                  \cup {EmptyDict},
        national \in {Dict([national_growth |-> Dict([1y |-> a, 2y |-> b, 5y |-> c])]) :
                         a \in NationalRates, b \in NationalRates, c \in {None, Num(8)}}
                     \cup {NationalError}}

\* the provider's answer to the county employment request: up to three monthly
\* series that end in December 2024 and go back month by month; employment
\* falls by 10 a month into the past, and some values are "-"
MonthlySeries(n, dashes, values) ==
    [i \in 1..n |->
        Observation(2024 - ((i - 1) \div 12), 12 - ((i - 1) % 12),
                    IF i \in dashes THEN Dash ELSE values[i])]
EmployedBack == [i \in 1..25 |-> Num(2000 - 10 * (i - 1))]
RateBack == [i \in 1..13 |-> Frac(7, 2)]
LaborBack == [i \in 1..13 |-> Num(2100)]
OldestFirst(data) == [i \in DOMAIN data |-> data[Len(data) + 1 - i]]
EmploymentSeries ==
    {MonthlySeries(n, dashes, EmployedBack) :
        n \in {0, 1, 7, 13, 25}, dashes \in {{}, {1}, {3}, {9}}}
    \cup {OldestFirst(MonthlySeries(13, {}, EmployedBack))}
CompanionSeries(values) ==
    {MonthlySeries(n, dashes, values) : n \in {0, 13}, dashes \in {{}, {1}, {2}}}
LauInputs ==
    {[kind |-> "lau", series |-> series] :
        series \in {<<>>}
                   \cup {<<emp>> : emp \in EmploymentSeries}
                   \cup {<<emp, unemp, labor>> :
                            emp \in EmploymentSeries,
                            unemp \in CompanionSeries(RateBack),
                            labor \in CompanionSeries(LaborBack)}}

\* two requests: address and geo_type are any strings (the endpoint declares
\* them as str and validates neither); a string is the sequence of its pieces
AddressStrings == {<<"A">>, <<"A", ":", "B">>, <<"A", ":">>, <<":", "A">>}
GeoTypeStrings == {Tract, Zip, County, <<"B", ":", "tract">>}
KeyInputs ==
    {[kind |-> "keys", first |-> first, second |-> second] :
        first \in AddressStrings \X GeoTypeStrings,
        second \in AddressStrings \X GeoTypeStrings}

Computed(fn, value) == [fn |-> fn, result |-> value]

\* cache_key = f"{address}:{geo_type}:v2", for each of the two requests
CacheKeys ==
    /\ input.kind = "keys" /\ output = NotComputed
    /\ output' = Computed("cache_key",
                          <<CacheKey(input.first[1], input.first[2]),
                            CacheKey(input.second[1], input.second[2])>>)
    /\ UNCHANGED <<input, handler_vars>>

\* fetch_bls_lau_data on the provider's answer
LauFromSeries ==
    /\ input.kind = "lau" /\ output = NotComputed
    /\ output' = Computed("lau_result", lau_from_series(input.series))
    /\ UNCHANGED <<input, handler_vars>>

LauGrowth ==
    /\ input.kind = "series" /\ output = NotComputed
    /\ output' = Computed("lau", fetch_bls_lau_data(input.data))
    /\ UNCHANGED <<input, handler_vars>>

NationalGrowth ==
    /\ input.kind = "series" /\ output = NotComputed
    /\ output' = Computed("national", fetch_national_employment_data(input.data))
    /\ UNCHANGED <<input, handler_vars>>

WageGrowth ==
    /\ input.kind = "series" /\ output = NotComputed
    /\ output' = Computed("wage", wage_info(input.data))
    /\ UNCHANGED <<input, handler_vars>>

\* fetch_census_data returns before the windows when it has no year
CensusGrowth ==
    /\ input.kind = "series" /\ output = NotComputed
    /\ input.data # <<>>
    /\ output' = Computed("census", census_growth(input.data))
    /\ UNCHANGED <<input, handler_vars>>

Resilience ==
    /\ input.kind = "yearly" /\ output = NotComputed
    /\ output' = Computed("resilience", calculate_downturn_resilience(input.data))
    /\ UNCHANGED <<input, handler_vars>>

\* census_emp_data, projection_notes = project_census_data(census_emp_data, lau_data)
Project ==
    /\ input.kind = "projector" /\ output = NotComputed
    /\ output' = [fn |-> "projector",
                  result |-> project_census_data(input.census, input.county)[1],
                  notes |-> project_census_data(input.census, input.county)[2],
                  before |-> input.census,
                  applied |-> 1]
    /\ UNCHANGED <<input, handler_vars>>

\* the projector applied to its own output, with the same county result
ProjectAgain ==
    /\ output.fn = "projector" /\ output.applied = 1
    /\ output' = [fn |-> "projector",
                  result |-> project_census_data(output.result, input.county)[1],
                  notes |-> project_census_data(output.result, input.county)[2],
                  before |-> output.result,
                  applied |-> 2]
    /\ UNCHANGED <<input, handler_vars>>

\* the projector got past its early returns: it appended points
Extrapolates(census_data, county_lau_data) ==
    project_census_data(census_data, county_lau_data)[2] # <<>>

\* county_emp_growth and county_labor_growth, as the projector holds them
\* before its loop (each ratio kept as the factor 1 + growth)
CountyGrowth ==
    /\ input.kind = "projector" /\ output = NotComputed
    /\ Extrapolates(input.census, input.county)
    /\ output' =
          Computed("ratios",
                   [county_emp_growth |->
                        GrowthFactors(YearValues(Item(input.county, "employment_trends").items)),
                    county_labor_growth |->
                        GrowthFactors(YearValues(Item(input.county, "labor_force_trends").items))])
    /\ UNCHANGED <<input, handler_vars>>

\* compare_local_to_national(lau_data.get('growth', {}), national_data)
Compare ==
    /\ input.kind = "rates" /\ output = NotComputed
    /\ output' = Computed("comparator",
                          compare_local_to_national(input.local, input.national))
    /\ UNCHANGED <<input, handler_vars>>

NextCalc ==
    \/ Compare
    \/ Project
    \/ ProjectAgain
    \/ CountyGrowth
    \/ LauFromSeries
    \/ CacheKeys
    \/ LauGrowth
    \/ NationalGrowth
    \/ WageGrowth
    \/ CensusGrowth
    \/ Resilience

InitCalc ==
    /\ input \in SeriesInputs \cup YearlyInputs \cup ProjectorInputs \cup RatesInputs
                \cup LauInputs \cup KeyInputs
    /\ output = NotComputed
    /\ scenario = "calculators"
    /\ InitCache({NoEntry})
    /\ report_cache = [k \in Keys |-> NoRow]
    /\ InitRequests

SpecCalc == InitCalc /\ [][NextCalc]_vars

(***************************************************************************)
(* Properties                                                              *)
(***************************************************************************)
Pipeline == {"geocode", "fips", "setex"} \cup Sources
Reads(r) == pc[r] = "get" /\ pc'[r] # "get"
Joined(r) == used[r] # None
Succeeded(outcome) == IsDict(outcome) /\ ~Has(outcome, "error")
\* the request got as far as writing the cache entry, and the write raised
StoreFailed(r) == "setex" \in calls[r] /\ response[r].served = "error"
FailedOutcome(outcome) ==
    IsException(outcome) \/ (IsDict(outcome) /\ Has(outcome, "error"))

\* ctx has every key of payload (with the same value)
CarriesKeys(ctx, payload) ==
    IsDict(ctx) /\ \A k \in DOMAIN payload.kv : Has(ctx, k)
Carries(ctx, payload) ==
    IsDict(ctx) /\ \A k \in DOMAIN payload.kv : Has(ctx, k) /\ ctx.kv[k] = payload.kv[k]

\* the report shows the data a source returned
ShowsData(report, source, outcome) ==
    LET county == Item(report, "county_context")
        granular == Item(report, "granular_data")
    IN  CASE source = "lau" -> Carries(county, outcome)
          [] source = "qcew" -> Carries(county, outcome)
          [] source = "national" ->
                /\ IsDict(county)
                /\ Has(county, "comparative_performance")
                /\ \A p \in DOMAIN Item(county, "comparative_performance").kv :
                      Item(Item(county, "comparative_performance").kv[p], "national_rate")
                          = Item(Item(outcome, "national_growth"), p)
          [] source = "resilience" ->
                /\ IsDict(county)
                /\ Has(county, "downturn_resilience")
                /\ Item(county, "downturn_resilience") = outcome
          [] source = "census" -> CarriesKeys(granular, outcome)
          [] source = "acs" -> Carries(granular, outcome)

\* the report shows an inline error object for a source
ShowsError(report, source) ==
    LET county == Item(report, "county_context")
        granular == Item(report, "granular_data")
    IN  CASE source \in {"lau", "qcew"} -> IsDict(county) /\ Has(county, "error")
          [] source = "national" ->
                /\ IsDict(county)
                /\ \/ Has(county, "error")
                   \/ /\ Has(county, "comparative_performance")
                      /\ Has(Item(county, "comparative_performance"), "error")
          [] source = "resilience" ->
                /\ IsDict(county)
                /\ Has(county, "downturn_resilience")
                /\ Has(Item(county, "downturn_resilience"), "error")
          [] source \in {"census", "acs"} -> IsDict(granular) /\ Has(granular, "error")

ExactlyOneOfSixFails(r) ==
    /\ Len(produced[r]) = 6
    /\ \A i \in 1..6 : ~IsPending(produced[r][i])
    /\ Cardinality({i \in 1..6 : FailedOutcome(produced[r][i])}) = 1
    /\ \A i \in 1..6 : FailedOutcome(produced[r][i]) \/ Succeeded(produced[r][i])

\* C1: a six-task request in which exactly one task fails and the other five
\* succeed returns a report that shows the data of each of the five
\* successful sources and an inline error object for the failed one.
C1_OneFailureKeepsOtherFive ==
    \A r \in Requests :
        (pc[r] = "done" /\ ExactlyOneOfSixFails(r) /\ ~StoreFailed(r)) =>
            /\ response[r].status = 200
            /\ \A i \in 1..6 :
                  IF FailedOutcome(produced[r][i])
                      THEN ShowsError(response[r].body, Tasks(args[r].geo_type)[i])
                      ELSE ShowsData(response[r].body, Tasks(args[r].geo_type)[i],
                                     produced[r][i])

\* C2: a request with flush_cache=true is never answered from the cache: it
\* always computes afresh, in every interleaving with other requests of the key.
C2_FlushNeverServedFromCache ==
    \A r \in Requests :
        (pc[r] = "done" /\ args[r].flush_cache) =>
            /\ response[r].served # "cache"
            /\ "geocode" \in calls[r]

\* C3: a read that finds a well-formed entry ends the request with the decoded
\* entry; the request resolves no location, fetches nothing and writes nothing,
\* then or later.
C3_FastHitReturnsImmediately ==
    /\ [][\A r \in Requests :
            (Reads(r) /\ redis[cache_key(r)] # Nil /\ ~JSONDecodeError(redis[cache_key(r)]))
                => /\ pc'[r] = "done"
                   /\ response'[r] = Ok(json_loads(redis[cache_key(r)]), "cache")
                   /\ redis' = redis /\ ttl' = ttl]_vars
    /\ [](\A r \in Requests :
            (response[r].status = 200 /\ response[r].served = "cache")
                => pc[r] = "done" /\ calls[r] \cap Pipeline = {} /\ IsNone(result[r]))
C3_Witness ==
    \E r \in Requests :
        /\ pc[r] = "done"
        /\ response[r].status = 200
        /\ response[r].served = "cache"
        /\ IsDict(response[r].body)

\* C4: a request that misses the fast tier while the persistent tier holds a
\* row for its key is answered with that row, without running the pipeline,
\* and the row is copied to the fast tier.
C4_PersistentHitServesAndBackfills ==
    \A r \in Requests :
        (pc[r] = "done" /\ "get" \in calls[r] /\ ReadPath(cached[r]) = "miss"
            /\ report_cache[cache_key(r)] # NoRow)
            => /\ calls[r] \cap Pipeline = {}
               /\ response[r].status = 200
               /\ json_dumps(response[r].body) = report_cache[cache_key(r)].result

\* C5: a request that computed its report has, when it returns, stored it in
\* the persistent tier and in the fast tier.
C5_FreshReportStoredInBothTiers ==
    \A r \in Requests :
        (pc[r] = "done" /\ response[r].status = 200 /\ response[r].served = "fresh")
            => /\ "setex" \in calls[r]
               /\ report_cache[cache_key(r)] # NoRow

\* C6: a read of a key whose entry is the text a request stored for its report
\* (not flushed, not expired, not overwritten since) is answered from the fast
\* tier with that report, and the report's text is the stored text.
C6_CacheRoundTrip ==
    [][\A r \in Requests :
          (Reads(r) /\ ~IsNone(written[cache_key(r)]))
              => /\ response'[r] = Ok(written[cache_key(r)], "cache")
                 /\ json_dumps(response'[r].body) = redis[cache_key(r)]]_vars
C6_Witness ==
    \E r, q \in Requests :
        /\ r # q
        /\ response[q].status = 200 /\ response[q].served = "fresh"
        /\ response[r].status = 200 /\ response[r].served = "cache"
        /\ response[r].body = response[q].body

\* C7: a read that finds a text json.loads rejects goes on as a miss, with no
\* error response, and the request that then composes a report stores it in
\* place of the text (unless the store itself raises).
C7_CorruptEntryIsMiss ==
    [][\A r \in Requests :
          /\ (Reads(r) /\ JSONDecodeError(redis[cache_key(r)]))
                => pc'[r] = "geocode" /\ response'[r] = NoResponse
          /\ (pc[r] = "setex" /\ pc'[r] # "setex" /\ JSONDecodeError(cached[r])
                /\ response'[r].served # "error")
                => /\ response'[r] = Ok(result[r], "fresh")
                   /\ redis'[cache_key(r)] = json_dumps(result[r])
                   /\ ~JSONDecodeError(redis'[cache_key(r)])]_vars
C7_Witness ==
    \E r \in Requests :
        /\ JSONDecodeError(cached[r])
        /\ pc[r] = "done"
        /\ response[r].status = 200 /\ response[r].served = "fresh"
        /\ redis[cache_key(r)] = json_dumps(response[r].body)

\* C8: a request whose geocoding or geography-code resolution fails ends with
\* a 4xx status, and none of its fan-out tasks is started.
ResolutionFailed(r) ==
    pc[r] = "done" /\ "geocode" \in calls[r] /\ IsNone(loc[r].fips)
C8_ResolutionFailureIs4xx ==
    \A r \in Requests :
        ResolutionFailed(r) =>
            /\ response[r].status \in 400..499
            /\ calls[r] \cap Sources = {}
            /\ results[r] = <<>>

\* C9: in the fan-out no task is cancelled or blocked by a sibling's failure:
\* while gather waits, every task that has not completed can still complete and
\* the list holds exactly what each completed task produced; the handler goes
\* on only when every task has completed.
C9_NoSiblingCancelled ==
    \A r \in Requests :
        /\ pc[r] = "gather" =>
              \A i \in DOMAIN produced[r] :
                  /\ results[r][i] = produced[r][i]
                  /\ IsPending(produced[r][i]) => ENABLED TaskComplete(r, i)
        /\ (pc[r] \in {"setex", "done"} /\ produced[r] # <<>>) =>
              \A i \in DOMAIN produced[r] :
                  ~IsPending(produced[r][i]) /\ results[r][i] = produced[r][i]
C9_Witness ==
    \E r \in Requests :
        /\ pc[r] = "gather"
        /\ \E i, k \in DOMAIN produced[r] :
              /\ IsException(produced[r][i])
              /\ IsPending(produced[r][k])
              /\ ENABLED TaskComplete(r, k)

\* the value the handler uses for a source: the task's own outcome, or the
\* source's placeholder when the task raised
Attributed(outcome, msg) == IF IsException(outcome) THEN ErrorDict(msg) ELSE outcome

\* C10: whatever the completion order and whichever tasks fail, the handler
\* uses for each source the outcome (or failure placeholder) of that source's
\* own task, in the four-task and in the six-task fan-out.
C10_OutcomeAttributedToOwnSource ==
    \A r \in Requests :
        Joined(r) =>
            /\ used[r].lau_data = Attributed(produced[r][1], "Failed to fetch LAU data")
            /\ used[r].qcew_data = Attributed(produced[r][2], "Failed to fetch QCEW data")
            /\ used[r].national_data =
                  Attributed(produced[r][3], "Failed to fetch national data")
            /\ used[r].resilience_data =
                  Attributed(produced[r][4], "Failed to fetch resilience data")
            /\ IF granular_tasks_added(args[r].geo_type)
                  THEN /\ Len(produced[r]) = 6
                       /\ used[r].census_emp_data =
                             Attributed(produced[r][5], "Failed to fetch Census employment")
                       /\ used[r].acs_other_data =
                             Attributed(produced[r][6], "Failed to fetch ACS demographics")
                  ELSE /\ Len(produced[r]) = 4
                       /\ IsNone(used[r].census_emp_data)
                       /\ IsNone(used[r].acs_other_data)
C10_Witness ==
    \E r \in Requests :
        /\ Joined(r)
        /\ Len(produced[r]) = 6
        /\ IsException(produced[r][5])
        /\ produced[r][6] = AcsFull
        /\ used[r].acs_other_data = AcsFull

\* the windows of each growth calculator and how far back each looks
StepsBack ==
    [lau |-> [6mo |-> 5, 1y |-> 11, 2y |-> 23, 5y |-> 59],
     national |-> [1y |-> 11, 2y |-> 23, 5y |-> 59],
     wage |-> [1y |-> 1, 3y |-> 3, 5y |-> 5],
     census |-> [1y |-> 1, 2y |-> 2, 5y |-> 5]]
GrowthFns == DOMAIN StepsBack
\* the growth windows in a calculator's result
Windows(fn, value) ==
    CASE fn = "lau" -> Item(value, "growth")
      [] fn = "national" -> Item(value, "national_growth")
      [] fn = "wage" -> Item(value, "wage_growth")
      [] fn = "census" -> value
IsFailure(value) == IsException(value) \/ (IsDict(value) /\ Has(value, "error"))
ComputedGrowth == output.fn \in GrowthFns /\ ~IsFailure(output.result)

\* C11: in every growth computation, a window whose past observation is 0 is
\* the infinite-growth sentinel when the latest value is positive and 0 when
\* the latest value is 0 too.
C11_ZeroDenominatorSentinel ==
    ComputedGrowth =>
        \A w \in DOMAIN StepsBack[output.fn] :
            (Len(input.data) > StepsBack[output.fn][w]
                /\ input.data[StepsBack[output.fn][w] + 1] = 0)
            => /\ Has(Windows(output.fn, output.result), w)
               /\ Item(Windows(output.fn, output.result), w) =
                     IF input.data[1] > 0 THEN Inf ELSE Num(0)

\* C12 as stated: for every series with fewer than stepsBack+1 observations
\* the county, national or wage calculator does not fail and the window is null.
C12_ShortSeriesNullAsStated ==
    output.fn \in {"lau", "national", "wage"} =>
        /\ ~IsFailure(output.result)
        /\ \A w \in DOMAIN StepsBack[output.fn] :
              Len(input.data) < StepsBack[output.fn][w] + 1
                  => Item(Windows(output.fn, output.result), w) = None

\* C12: for every series with at least one and fewer than stepsBack+1
\* observations the county, national or wage calculator does not fail and the
\* window is null (with no observation at all it returns its no-data error).
C12_ShortSeriesNull ==
    (output.fn \in {"lau", "national", "wage"} /\ Len(input.data) >= 1) =>
        /\ ~IsFailure(output.result)
        /\ \A w \in DOMAIN StepsBack[output.fn] :
              Len(input.data) < StepsBack[output.fn][w] + 1
                  => /\ Has(Windows(output.fn, output.result), w)
                     /\ Item(Windows(output.fn, output.result), w) = None
C12_Witness ==
    /\ output.fn = "lau"
    /\ Len(input.data) = 7
    /\ ~IsNone(Item(Windows("lau", output.result), "6mo"))
    /\ IsNone(Item(Windows("lau", output.result), "1y"))

ReportsScore ==
    /\ output.fn = "resilience"
    /\ IsDict(output.result)
    /\ Has(output.result, "resilience_score")
InUnitRange(x) == ~GtNum(Num(0), x) /\ ~GtNum(x, Num(100))
Bucket(score) ==
    IF GtNum(score, Num(70)) THEN Str("High")
    ELSE IF GtNum(score, Num(50)) THEN Str("Moderate")
    ELSE Str("Low")

\* C13: a reported resilience_score lies in [0,100] and the reported
\* rating is High when the reported score > 70, Moderate when it is in (50,70],
\* Low otherwise.
C13_RatingOfReportedScore ==
    ReportsScore =>
        /\ InUnitRange(Item(output.result, "resilience_score"))
        /\ Item(output.result, "resilience_rating") =
              Bucket(Item(output.result, "resilience_score"))

Projected == output.fn = "projector" /\ output.applied = 1
\* the years of the county result's employment series, the latest year of the
\* annual result, and the gap between the two
CountySeries(county) == Item(county, "employment_trends").items
CountyYearsOf(county) == {Item(CountySeries(county)[i], "year").n : i \in DOMAIN CountySeries(county)}
AnnualLatest(census) == Item(Item(census, "trends").items[1], "year").n
BothUsable ==
    /\ ~Has(input.census, "error") /\ Len(Item(input.census, "trends").items) > 0
    /\ ~Has(input.county, "error")
Gap ==
    IF CountyYearsOf(input.county) = {} THEN 0
    ELSE SetMax(CountyYearsOf(input.county)) - AnnualLatest(input.census)

\* C14: when the county series' latest year is not after the annual series'
\* latest year the projector returns the annual result unchanged with empty
\* notes, and the projector applied to its own output with the same county
\* result returns that output unchanged with empty notes.
C14_ProjectorNoOpAndIdempotent ==
    /\ (Projected /\ BothUsable /\ Gap <= 0) =>
          output.result = input.census /\ output.notes = <<>>
    /\ (output.fn = "projector" /\ output.applied = 2) =>
          output.result = output.before /\ output.notes = <<>>
\* the projector extended the series and was applied again
C14_Witness ==
    /\ output.fn = "projector" /\ output.applied = 2
    /\ BothUsable /\ Gap = 2
    /\ output.result # input.census
    /\ output.result = output.before

\* the county value of a year, the ratio the county series gives year t (0
\* when it has none), and the employed count carried from the annual series'
\* last value through year t
CountyValue(county, y) ==
    Item(CountySeries(county)[CHOOSE i \in DOMAIN CountySeries(county) :
                                 Item(CountySeries(county)[i], "year").n = y], "value")
PrevCountyYear(county, t) == SetMax({p \in CountyYearsOf(county) : p < t})
HasRatio(county, t) ==
    /\ t \in CountyYearsOf(county)
    /\ \E p \in CountyYearsOf(county) : p < t
    /\ Gt(CountyValue(county, PrevCountyYear(county, t)), 0)
OnePlusRatio(county, t) ==
    IF HasRatio(county, t)
        THEN AddNum(Num(1),
                    DivNum(SubNum(CountyValue(county, t),
                                  CountyValue(county, PrevCountyYear(county, t))),
                           CountyValue(county, PrevCountyYear(county, t))))
        ELSE Num(1)
RECURSIVE Employed(_, _, _)
Employed(census, county, t) ==
    IF t <= AnnualLatest(census)
        THEN Item(Item(census, "trends").items[1], "value")
        ELSE MulNum(Employed(census, county, t - 1), OnePlusRatio(county, t))
PointsOfYear(trends, y) == {i \in DOMAIN trends : Item(trends[i], "year").n = y}

\* C15: when the county series' latest year is k >= 1 years after the annual
\* series' latest year, the output has exactly k more points, one for each
\* year of the gap, each flagged projected, whose employed value is the annual
\* series' last value compounded by the county ratio of each year up to it (no
\* ratio: carried forward), rounded to a whole number; the points the annual
\* series had are kept and not flagged.
C15_ProjectorCompounds ==
    (Projected /\ BothUsable /\ Gap >= 1) =>
        /\ Len(Item(output.result, "trends").items) =
              Len(Item(input.census, "trends").items) + Gap
        /\ \A t \in (AnnualLatest(input.census) + 1)..(AnnualLatest(input.census) + Gap) :
              \E i \in DOMAIN Item(output.result, "trends").items :
                  /\ PointsOfYear(Item(output.result, "trends").items, t) = {i}
                  /\ Item(Item(output.result, "trends").items[i], "projected") = Bool(TRUE)
                  /\ Item(Item(output.result, "trends").items[i], "value") =
                        Round0(Employed(input.census, input.county, t))
        /\ \A k \in DOMAIN Item(input.census, "trends").items :
              \E i \in DOMAIN Item(output.result, "trends").items :
                  Item(output.result, "trends").items[i] = Item(input.census, "trends").items[k]
\* base 1000 with ratios 0.05 then -0.02 gives 1050 then 1029
C15_Witness ==
    /\ Projected /\ BothUsable /\ Gap = 2
    /\ input.county = CountyResult({2022, 2023, 2024}, EmpRising)
    /\ Item(Item(output.result, "trends").items[2], "value") = Num(1050)
    /\ Item(Item(output.result, "trends").items[1], "value") = Num(1029)
    /\ Item(Item(output.result, "trends").items[1], "projected") = Bool(TRUE)

\* the rate a side has for a period, None when the side has none
LocalRate(p) == Get(input.local, p, None)
NationalRate(p) == Get(Get(input.national, "national_growth", EmptyDict), p, None)

\* C16: the comparison has a period exactly when the local and the national
\* rate of that period are both there; its difference is local - national
\* rounded to 2 decimals and outperforming says whether local > national; a
\* period missing on either side is left out.
C16_ComparatorOmitsMissing ==
    output.fn = "comparator" =>
        /\ IsDict(output.result)
        /\ DOMAIN output.result.kv \subseteq {"1y", "2y", "5y"}
        /\ \A p \in {"1y", "2y", "5y"} :
              /\ Has(output.result, p) <=> (~IsNone(LocalRate(p)) /\ ~IsNone(NationalRate(p)))
              /\ Has(output.result, p) =>
                    /\ Item(Item(output.result, p), "local_rate") = LocalRate(p)
                    /\ Item(Item(output.result, p), "national_rate") = NationalRate(p)
                    /\ Item(Item(output.result, p), "difference") =
                          Round2(SubNum(LocalRate(p), NationalRate(p)))
                    /\ Item(Item(output.result, p), "outperforming") =
                          Bool(GtNum(LocalRate(p), NationalRate(p)))
\* one period compared (2.1 against 1.8), one left out for want of a national rate
C16_Witness ==
    /\ output.fn = "comparator"
    /\ LocalRate("1y") = Frac(21, 10) /\ NationalRate("1y") = Frac(9, 5)
    /\ Item(Item(output.result, "1y"), "difference") = Frac(3, 10)
    /\ Item(Item(output.result, "1y"), "outperforming") = Bool(TRUE)
    /\ ~IsNone(LocalRate("2y")) /\ IsNone(NationalRate("2y"))
    /\ ~Has(output.result, "2y")

(***************************************************************************)
(* The handler on successful sources, and its summary labels               *)
(***************************************************************************)
AllSourcesSucceed(r) ==
    /\ Len(produced[r]) = 6
    /\ \A i \in 1..6 : Succeeded(produced[r][i])

\* C17: a tract request for which the geocoder, the resolver and all six
\* sources answer successfully ends with status 200 and a report that has
\* geo, county_context, granular_data and cre_summary, where geo carries the
\* geocoder's lat and the resolver's county_fips; whatever the length of the
\* series the sources answered with.
C17_AllSourcesSucceedGivesReport ==
    \A r \in Requests :
        (pc[r] = "done" /\ args[r].geo_type = Tract /\ Joined(r) /\ AllSourcesSucceed(r)
            /\ ~StoreFailed(r)) =>
            /\ response[r].status = 200
            /\ \A k \in {"geo", "county_context", "granular_data", "cre_summary"} :
                  Has(response[r].body, k)
            /\ Item(Item(response[r].body, "geo"), "lat") = Item(loc[r].geo, "lat")
            /\ Item(Item(response[r].body, "geo"), "county_fips") =
                  Item(loc[r].fips, "county_fips")

\* the 1-year rate the summary reads is absent, or there and null
Missing1y(rates) == ~Has(rates, "1y") \/ IsNone(Item(rates, "1y"))
LauRates(r) == Get(used[r].lau_data, "growth", EmptyDict)
WageRates(r) ==
    Get(Get(used[r].qcew_data, "wage_data", EmptyDict), "wage_growth", EmptyDict)
Label(r, k) == Item(Item(response[r].body, "cre_summary"), k)
LabelOf(rate, hi) ==
    IF GtNum(rate, Num(hi)) THEN Str("strong")
    ELSE IF GtNum(rate, Num(0)) THEN Str("moderate") ELSE Str("weak")

\* C18: employment_growth_strength is strong above 2, moderate above 0 and
\* weak otherwise, wage_growth_strength the same with 3 and 0; a 1-year rate
\* that is missing (absent or null) counts as 0 and gives weak, and the
\* request does not fail over it.
C18_MissingRateIsWeak ==
    \A r \in Requests :
        (pc[r] = "done" /\ Joined(r) /\ IsDict(used[r].lau_data)
            /\ IsDict(used[r].qcew_data) /\ IsDict(LauRates(r)) /\ IsDict(WageRates(r))
            /\ ~Has(used[r].lau_data, "error") /\ ~StoreFailed(r)) =>
            /\ response[r].status = 200
            /\ Label(r, "employment_growth_strength") =
                  (IF Missing1y(LauRates(r)) THEN Str("weak")
                   ELSE LabelOf(Item(LauRates(r), "1y"), 2))
            /\ Label(r, "wage_growth_strength") =
                  (IF Missing1y(WageRates(r)) THEN Str("weak")
                   ELSE LabelOf(Item(WageRates(r), "1y"), 3))

(***************************************************************************)
(* The outer boundary of the handler                                       *)
(***************************************************************************)
\* what composing the report of r raises (None when it raises nothing)
ComposeRaised(r) == compose(args[r].geo_type, loc[r].geo, loc[r].fips, results[r]).raised
Unexpected(name) ==
    [status |-> 500,
     body |-> Dict([detail |-> FStr("An unexpected error occurred: ", Str(name))]),
     served |-> "error"]
\* the responses of the HTTP errors the geocoder and the resolver raise
ResolutionErrors ==
    {[status |-> e.status_code, body |-> Dict([detail |-> Str(e.detail)]),
      served |-> "error"] : e \in {GeocodingFailed, AddressNotFound, FccFailed, FipsNotFound}}

AtRedis(r) == pc[r] \in {"delete", "get", "setex"}
RedisAnswers(r) == CacheDelete(r) \/ CacheGet(r) \/ CacheSetex(r)
Writes(r) == pc[r] = "setex" /\ pc'[r] = "done"

\* C20: concurrent requests of one key each compute and write without
\* locking: a request that is at a call of the cache (delete, get, setex) can
\* always have it answered whatever the others are doing, and every request
\* ends with status 200;
\* each write replaces the entry by the complete text of the writer's own
\* report, the entry changes in no other way than by such a write, a flush
\* or its expiry, and so once all have finished an entry that is there is
\* the report of the request that wrote last.
C20_LastWriterWins ==
    /\ [](\A r \in Requests : AtRedis(r) => ENABLED RedisAnswers(r))
    /\ [](\A r \in Requests : pc[r] = "done" => response[r].status = 200)
    /\ [][\A r \in Requests :
             Writes(r) => /\ redis'[cache_key(r)] = json_dumps(result[r])
                          /\ written'[cache_key(r)] = result[r]
                          /\ response'[r] = Ok(result[r], "fresh")]_vars
    /\ [][\A k \in Keys :
             redis'[k] # redis[k] =>
                 \/ redis'[k] = Nil
                 \/ \E r \in Requests : Writes(r) /\ cache_key(r) = k]_vars
    /\ [](\A k \in Keys :
             redis[k] # Nil =>
                 /\ redis[k] = json_dumps(written[k])
                 /\ \E r \in Requests :
                       "setex" \in calls[r] /\ written[k] = result[r])
\* two requests of the key both computed and wrote different reports; the
\* entry is the whole report of the second
C20_Witness ==
    \E r, q \in Requests :
        /\ r # q /\ cache_key(r) = cache_key(q)
        /\ pc[r] = "done" /\ pc[q] = "done"
        /\ response[r].served = "fresh" /\ response[q].served = "fresh"
        /\ "setex" \in calls[r] /\ "setex" \in calls[q]
        /\ result[r] # result[q]
        /\ redis[cache_key(q)] = json_dumps(result[q])
        /\ redis[cache_key(q)] # json_dumps(result[r])

(***************************************************************************)
(* The projector's ratios, order and bounds                                *)
(***************************************************************************)
\* the factor 1 + (v[y] - v[y-1]) / v[y-1] of calendar years y and y - 1
CalendarFactor(values, y) ==
    AddNum(Num(1), DivNum(SubNum(values[y], values[y - 1]), values[y - 1]))
CalendarRatios(ratios, values) ==
    /\ DOMAIN ratios \subseteq DOMAIN values
    /\ \A y \in DOMAIN values :
          /\ y \in DOMAIN ratios <=> (y - 1 \in DOMAIN values /\ values[y - 1] # Num(0))
          /\ y \in DOMAIN ratios => ratios[y] = CalendarFactor(values, y)

\* C21: the ratio the projector assigns to year y is (v[y] - v[y-1]) / v[y-1]
\* of the county values of calendar years y and y - 1, for employment and,
\* separately, for labor force; y has no ratio when v[y-1] is 0 or when the
\* county series has no year y - 1.
C21_RatioOfCalendarYears ==
    output.fn = "ratios" =>
        /\ CalendarRatios(output.result.county_emp_growth,
                          YearValues(Item(input.county, "employment_trends").items))
        /\ CalendarRatios(output.result.county_labor_growth,
                          YearValues(Item(input.county, "labor_force_trends").items))

ProjectionDone == output.fn = "projector" /\ output.applied = 1 /\ output.notes # <<>>
TrendsOut == Item(output.result, "trends").items
YearOut(i) == Item(TrendsOut[i], "year").n

\* C22: after a projection the trend list is in strictly descending order of
\* year, its first point is the projected point of the county series' latest
\* year, and the headline total_jobs, unemployment_rate and labor_force are
\* that point's value, unemp_rate and labor_force.
C22_SortedAndReheadlined ==
    ProjectionDone =>
        /\ \A i \in 1..(Len(TrendsOut) - 1) : YearOut(i) > YearOut(i + 1)
        /\ YearOut(1) = SetMax(CountyYearsOf(input.county))
        /\ Item(TrendsOut[1], "projected") = Bool(TRUE)
        /\ Item(output.result, "total_jobs") = Item(TrendsOut[1], "value")
        /\ Item(output.result, "unemployment_rate") = Item(TrendsOut[1], "unemp_rate")
        /\ Item(output.result, "labor_force") = Item(TrendsOut[1], "labor_force")
\* two points were appended to the annual series 2022, 2021 and the headline changed
C22_Witness ==
    /\ ProjectionDone
    /\ Len(TrendsOut) = 4
    /\ YearOut(1) = 2024 /\ YearOut(2) = 2023 /\ YearOut(3) = 2022
    /\ Item(output.result, "total_jobs") = Num(1029)
    /\ Item(input.census, "total_jobs") = Num(1000)

(***************************************************************************)
(* The views of the report                                                 *)
(***************************************************************************)
Fresh(r) == pc[r] = "done" /\ response[r].status = 200 /\ response[r].served = "fresh"
\* the county context and the granular object the handler builds for r
CountyView(r) ==
    CountyContext(used[r].lau_data, used[r].qcew_data, used[r].national_data,
                  used[r].resilience_data)
GranularView(r) ==
    GranularData(TRUE, Projection(TRUE, used[r].census_emp_data, used[r].lau_data)[1],
                 used[r].acs_other_data)

\* C23: a county request fetches no granular employment and no granular
\* demographics, and its report has the county result as granular_data and
\* null as county_context; a tract or zip request fetches both, and its
\* report has the county result as county_context and the granular result as
\* granular_data.
C23_CountyRolesInvert ==
    \A r \in Requests :
        /\ (pc[r] # "none" /\ args[r].geo_type = County) =>
              calls[r] \cap {"census", "acs"} = {}
        /\ (Fresh(r) /\ args[r].geo_type = County) =>
              /\ Len(produced[r]) = 4
              /\ Item(response[r].body, "granular_data") = CountyView(r)
              /\ IsNone(Item(response[r].body, "county_context"))
        /\ (Fresh(r) /\ args[r].geo_type \in {Tract, Zip}) =>
              /\ {"census", "acs"} \subseteq calls[r]
              /\ Item(response[r].body, "county_context") = CountyView(r)
              /\ Item(response[r].body, "granular_data") = GranularView(r)
\* a county report that shows the county's employment as the primary view
C23_Witness ==
    \E r \in Requests :
        /\ Fresh(r) /\ args[r].geo_type = County
        /\ produced[r][1] = LauFull
        /\ Item(Item(response[r].body, "granular_data"), "total_jobs") = Num(1050)
        /\ IsNone(Item(response[r].body, "county_context"))

\* the object of the report that shows the county result of r
CountyShown(r) ==
    IF args[r].geo_type = County THEN Item(response[r].body, "granular_data")
    ELSE Item(response[r].body, "county_context")

\* C24: when the county employment source succeeded and the sector/wage
\* source failed, the county context of the report has no top-level error
\* key and has every field of the county employment result; when the granular
\* employment source succeeded and the demographics source failed, the
\* granular object has no top-level error key and has every field of the
\* granular employment result.
C24_MergedFailureStaysInline ==
    \A r \in Requests :
        /\ (Fresh(r) /\ Succeeded(used[r].lau_data) /\ FailedOutcome(produced[r][2])) =>
              /\ ~Has(CountyShown(r), "error")
              /\ CarriesKeys(CountyShown(r), used[r].lau_data)
        /\ (Fresh(r) /\ args[r].geo_type \in {Tract, Zip}
                /\ Succeeded(used[r].census_emp_data) /\ FailedOutcome(produced[r][6])) =>
              /\ ~Has(Item(response[r].body, "granular_data"), "error")
              /\ CarriesKeys(Item(response[r].body, "granular_data"),
                             used[r].census_emp_data)

(***************************************************************************)
(* The county employment calculator on the provider's answer               *)
(***************************************************************************)
\* the current value of a companion series: null when the series is absent
\* or empty or its latest value is no number
Current(series, k) ==
    IF Len(series) < k THEN None
    ELSE IF series[k] = <<>> THEN None
    ELSE IF ~Parses(series[k][1].value) THEN None
    ELSE series[k][1].value
LatestEmployed(series) == SortRecentFirst(series[1])[1].value

\* C25: when the provider answered with an employment series whose latest
\* value is a number, the calculator returns a result without an error, with
\* total_jobs the latest employment, whatever is missing or unparseable
\* elsewhere: an absent or empty unemployment-rate or labor-force series, or a
\* value that is no number, makes unemployment_rate or labor_force null (or
\* leaves the observation out) and nothing else.
C25_MissingFieldDegradesOneMetric ==
    (output.fn = "lau_result" /\ Len(input.series) >= 1 /\ input.series[1] # <<>>
        /\ Parses(LatestEmployed(input.series))) =>
        /\ Succeeded(output.result)
        /\ Item(output.result, "total_jobs") = LatestEmployed(input.series)
        /\ Item(output.result, "unemployment_rate") = Current(input.series, 2)
        /\ Item(output.result, "labor_force") = Current(input.series, 3)

(***************************************************************************)
(* Who writes the cache                                                    *)
(***************************************************************************)
Answered(r) == response[r] = NoResponse /\ response'[r] # NoResponse

\* C26: an entry of the fast tier is created or overwritten only in the step
\* in which a request that composed a fresh report stores it and returns it;
\* the step that ends a request with an error response or with a report read
\* from the cache changes no entry and no time to live; nothing ever writes
\* the persistent table.
C26_OnlyFreshReportsAreWritten ==
    /\ [][\A k \in Keys :
             (redis'[k] # redis[k] /\ redis'[k] # Nil) =>
                 \E r \in Requests :
                     /\ Answered(r) /\ cache_key(r) = k
                     /\ response'[r] = Ok(result[r], "fresh")
                     /\ redis'[k] = json_dumps(result[r])]_vars
    /\ [][\A r \in Requests :
             (Answered(r) /\ response'[r].served # "fresh") =>
                 redis' = redis /\ ttl' = ttl]_vars
    /\ [][report_cache' = report_cache]_vars
    /\ [](\A r \in Requests :
             (pc[r] = "done" /\ response[r].served = "cache") => "setex" \notin calls[r])
\* a request found a corrupt entry, computed, and failed at the end: the
\* entry is still the corrupt text
C26_Witness ==
    \E r \in Requests :
        /\ pc[r] = "done" /\ response[r].status = 500
        /\ Joined(r) /\ "setex" \in calls[r]
        /\ redis[cache_key(r)] = Garbage

(***************************************************************************)
(* Termination                                                             *)
(***************************************************************************)
Sent(r) == pc[r] \notin {"none", "idle"}

\* C27: when every call returns, every request that was sent ends; it ends
\* with one response, a report or an error, that is there exactly when the
\* request has ended and never changes afterwards; and the handler composes a
\* report only when every task of the request's fan-out has completed.
C27_EveryRequestCompletesOnce ==
    /\ \A r \in Requests : Sent(r) ~> (pc[r] = "done")
    /\ [](\A r \in Requests :
             /\ pc[r] = "done" <=> response[r] # NoResponse
             /\ pc[r] = "done" =>
                   \/ response[r].status = 200 /\ response[r].served \in {"fresh", "cache"}
                   \/ response[r].status \in 400..599 /\ response[r].served = "error"
             /\ Joined(r) => \A i \in DOMAIN produced[r] : ~IsPending(produced[r][i])
             /\ (pc[r] = "done" /\ response[r].served = "fresh") =>
                   Joined(r) /\ produced[r] # <<>>)
    /\ [][\A r \in Requests :
             response[r] # NoResponse => response'[r] = response[r]]_vars
\* a request ended with a fresh report after a task of its fan-out had raised
C27_Witness ==
    \E r \in Requests :
        /\ pc[r] = "done" /\ response[r].served = "fresh"
        /\ Len(produced[r]) = 6
        /\ \E i \in 1..6 : IsException(produced[r][i])

(***************************************************************************)
(* The cache key                                                           *)
(***************************************************************************)
\* C28: two requests whose (address, geo_type) pairs differ have different
\* cache keys, for every address, addresses with ':' included, and every
\* geo_type the endpoint accepts.
C28_CacheKeyInjective ==
    (output.fn = "cache_key" /\ input.first # input.second) =>
        output.result[1] # output.result[2]

(***************************************************************************)
(* The bounds of a projected point                                         *)
(***************************************************************************)
WithinLabor(point) ==
    /\ ~GtNum(Num(0), Item(point, "value"))
    /\ ~GtNum(Item(point, "value"), Item(point, "labor_force"))

\* C29: when the annual series' last known point has 0 <= employed <=
\* labor_force, every point the projector appends has 0 <= employed <=
\* labor_force and an unemployment rate between 0 and 100.
C29_ProjectedPointWithinLabor ==
    (ProjectionDone /\ WithinLabor(Item(input.census, "trends").items[1])) =>
        \A i \in DOMAIN TrendsOut :
            Has(TrendsOut[i], "projected") =>
                /\ WithinLabor(TrendsOut[i])
                /\ ~GtNum(Num(0), Item(TrendsOut[i], "unemp_rate"))
                /\ ~GtNum(Item(TrendsOut[i], "unemp_rate"), Num(100))

(***************************************************************************)
(* The months a growth window looks back                                   *)
(***************************************************************************)
\* in a gap-free monthly series sorted most-recent-first the observation m
\* months before the latest is at position m + 1; the window against it
MonthsBack(label) ==
    CASE label = "6mo" -> 6 [] label = "1y" -> 12 [] label = "2y" -> 24 [] label = "5y" -> 60
AgainstMonthsBack(rates, label, data) ==
    (Len(data) > MonthsBack(label) /\ data[MonthsBack(label) + 1] > 0) =>
        Item(rates, label) = PctChange(Num(data[1]), Num(data[MonthsBack(label) + 1]))

\* C30: for a gap-free monthly series sorted most-recent-first, the county
\* windows 6mo, 1y, 2y and 5y are the change of the latest observation
\* against the observation 6, 12, 24 and 60 months earlier, and the national
\* windows 1y, 2y and 5y against the observation 12, 24 and 60 months earlier.
C30_WindowsLookBackWholePeriods ==
    /\ (output.fn = "lau" /\ Succeeded(output.result)) =>
          \A label \in {"6mo", "1y", "2y", "5y"} :
              AgainstMonthsBack(Item(output.result, "growth"), label, input.data)
    /\ (output.fn = "national" /\ Succeeded(output.result)) =>
          \A label \in {"1y", "2y", "5y"} :
              AgainstMonthsBack(Item(output.result, "national_growth"), label, input.data)

====
